---- MODULE Spec2Model ----
(***************************************************************************)
(* A model of the crypto data collector: the adaptive data-quality monitor *)
(* (src/src/data_quality.py), the kline/ticker collection tasks and the    *)
(* collection scheduler (src/src/collector.py), the database handler       *)
(* (src/src/database.py) and the service (src/main.py).                    *)
(*                                                                         *)
(* Numbers.  Volumes are floats in the source.  The model keeps every      *)
(* quantity exact by scaling: a percentile of a window of integers is a    *)
(* multiple of 1/100 and the low-activity multiplier halves it, so volume  *)
(* thresholds are carried in units of 1/200 (field volume_x200).  Trade    *)
(* thresholds are truncated to integers exactly where the source calls     *)
(* int().                                                                  *)
(*                                                                         *)
(* Specifications.  SpecMonitor: any sequence of the monitor's public      *)
(* calls.  Spec: the collection loop with the 1d fetches of two symbols.   *)
(* SpecKline: the loop with two timeframes of one symbol and every kind of *)
(* kline.  SpecSched: the loop with every task of a cycle, a task body     *)
(* taken as one step.  SpecLoop: the loop with the ticker and one kline    *)
(* fetch that fail, the time a cycle takes, and stop_collection;           *)
(* FairSpecLoop adds that the event loop delivers a cancellation.          *)
(* SpecErrors: the loop with one kline fetch and every error of a cycle;   *)
(* FairSpecErrors adds that no ready step waits for ever.  SpecCancel:     *)
(* the loop of SpecErrors with stop_collection, the cancellation reaching  *)
(* the fetch at whatever await it is suspended.  SpecTicker: the loop with  *)
(* the ticker fetch and every kind of ticker payload.  SpecPool: the       *)
(* executor threads of save_ohlcv_data on the coins table.  SpecService:   *)
(* the service of src/main.py around the loop, its signal handlers and     *)
(* shutdown; FairSpecService adds that the event loop runs every ready     *)
(* task, while a signal may never come.  The monitor runs with             *)
(* debug_quick_baseline (min_data_points = 3) and the loop with the first  *)
(* two configured symbols.                                                 *)
(*                                                                         *)
(* Time.  A cycle's collection_time is drawn from Elapsed, at least the    *)
(* longest time a task of the cycle slept.                                 *)
(***************************************************************************)
EXTENDS Integers, Sequences, FiniteSets, TLC

VARIABLES
    \* DataQualityMonitor
    metrics_history,     \* [key -> [volume: Seq, trades: Seq]]
    statistics,          \* [key -> statistics record, present or not]
    baseline_complete,   \* [key -> BOOLEAN]
    verdict,             \* the pending validate_data call and what it returned
    call,                \* the monitor call made last: its name, its key, and the batch or
                         \* the point it recorded
    \* CryptoDataCollector
    running,             \* self.running
    sched,               \* continuous_collection: where it stands, the cycle it is in and its
                         \* locals; where stop_collection stands
    tasks,               \* the fetch tasks created and not yet collected, by (cycle, symbol, kind)
    current_timeframe,   \* self.current_timeframe
    initialization_done, \* [key -> BOOLEAN]
    \* DatabaseHandler (the tables the collector reads and writes)
    ohlcv_data,          \* rows of ohlcv_data, one per (symbol, timeframe, timestamp)
    invalid_data,        \* rows inserted into invalid_data since the last dispatch (the
                         \* table is only ever inserted into; no code reads it)
    price_ticks,         \* rows of price_ticks, one per (symbol, timestamp, source)
    coins,               \* rows of coins
    pool,                \* the db_operation callables running in the thread pool
    \* CryptoDataService
    service              \* start(), the shutdown() calls made, and self.running

monVars == <<metrics_history, statistics, baseline_complete, verdict, call>>
colVars == <<running, sched, tasks, current_timeframe, initialization_done>>
dbVars == <<ohlcv_data, invalid_data>>
extVars == <<price_ticks, coins, pool, service>>
vars == <<monVars, colVars, dbVars, extVars>>

(***************************************************************************)
(* Configuration                                                           *)
(***************************************************************************)
symbols == <<"BTC", "ETH">>
Symbols == {symbols[i] : i \in 1..Len(symbols)}
timeframes_order == <<"1m", "5m", "15m", "1h", "4h", "1d">>
timeframes == {timeframes_order[i] : i \in 1..Len(timeframes_order)}
Keys == Symbols \X timeframes

min_data_points == 3
percentile_threshold == 1

\* Bounds of the monitor-level specification
MaxBatch == 4            \* longest historical batch handed to initialize_from_db
MonKeys == {<<"BTC", "1m">>, <<"ETH", "5m">>}
SampleSeq == <<[volume |-> 10, trades |-> 10], [volume |-> 20, trades |-> 15]>>
SampleValues == {SampleSeq[i] : i \in 1..Len(SampleSeq)}
ProbeVolumes == {0, 4, 5, 8, 10}
ProbeTrades == {0, 5, 8, 10}
Hours == {7, 8}

(***************************************************************************)
(* numpy helpers                                                           *)
(***************************************************************************)
RECURSIVE Insert(_, _)
Insert(x, s) ==
    IF s = <<>> THEN <<x>>
    ELSE IF x <= Head(s) THEN <<x>> \o s
    ELSE <<Head(s)>> \o Insert(x, Tail(s))

RECURSIVE Sorted(_)
Sorted(s) == IF s = <<>> THEN <<>> ELSE Insert(Head(s), Sorted(Tail(s)))

RECURSIVE Sum(_)
Sum(s) == IF s = <<>> THEN 0 ELSE Head(s) + Sum(Tail(s))

SumSq(s) == Sum([i \in 1..Len(s) |-> s[i] * s[i]])

\* np.percentile(a, q), linear interpolation, times 100.  a is non-empty.
percentile_x100(a, q) ==
    LET s == Sorted(a)
        pos == q * (Len(s) - 1)
        lo == pos \div 100
        frac == pos % 100
    IN  IF frac = 0 THEN 100 * s[lo + 1]
        ELSE 100 * s[lo + 1] + frac * (s[lo + 2] - s[lo + 1])

\* int(x) for x >= 0 given as x * 100
int_of_x100(x) == x \div 100

(***************************************************************************)
(* DataQualityMonitor                                                      *)
(***************************************************************************)
NoStat == [mean_num |-> 0, mean_den |-> 1, std_sq_num |-> 0, min_x100 |-> 0, max_x100 |-> 0]
NoStatistics == [present |-> FALSE, volume |-> NoStat, trades |-> NoStat]

\* mean = mean_num / mean_den, std^2 = std_sq_num / mean_den^2, min/max = 5th/95th percentile
stat_of(a) ==
    [mean_num |-> Sum(a), mean_den |-> Len(a),
     std_sq_num |-> Len(a) * SumSq(a) - Sum(a) * Sum(a),
     min_x100 |-> percentile_x100(a, 5), max_x100 |-> percentile_x100(a, 95)]

\* _update_statistics: the statistics of one key after the call
update_statistics(old, metrics) ==
    IF metrics.volume = <<>> \/ metrics.trades = <<>> THEN old
    ELSE [present |-> TRUE, volume |-> stat_of(metrics.volume), trades |-> stat_of(metrics.trades)]

\* a[-n:] of a Python list
last_n(a, n) == IF Len(a) > n THEN SubSeq(a, Len(a) - n + 1, Len(a)) ELSE a

\* add_metrics without the early return and without the truncation
add_metrics_unbounded(h, st, bc, data) ==
    LET appended == [volume |-> Append(h.volume, data.volume),
                     trades |-> Append(h.trades, data.trades)]
    IN  [history |-> appended, stats |-> update_statistics(st, appended),
         complete |-> (Len(appended.volume) >= min_data_points)]

\* add_metrics completing the baseline only beyond min_data_points samples
add_metrics_strict_completion(h, st, bc, data) ==
    IF bc THEN [history |-> h, stats |-> st, complete |-> bc]
    ELSE LET kept == [volume |-> last_n(Append(h.volume, data.volume), min_data_points),
                      trades |-> last_n(Append(h.trades, data.trades), min_data_points)]
         IN  [history |-> kept,
              stats |-> update_statistics(st, kept),
              complete |-> (Len(kept.volume) > min_data_points)]

\* add_metrics refreshing the statistics only once the baseline is complete
add_metrics_stats_on_completion(h, st, bc, data) ==
    IF bc THEN [history |-> h, stats |-> st, complete |-> bc]
    ELSE LET kept == [volume |-> last_n(Append(h.volume, data.volume), min_data_points),
                      trades |-> last_n(Append(h.trades, data.trades), min_data_points)]
             complete == Len(kept.volume) >= min_data_points
         IN  [history |-> kept,
              stats |-> IF complete THEN update_statistics(st, kept) ELSE st,
              complete |-> complete]

\* add_metrics on one key: the key's (history, statistics, baseline_complete) after the call
add_metrics(h, st, bc, data) ==
    IF bc THEN [history |-> h, stats |-> st, complete |-> bc]
    ELSE LET appended == [volume |-> Append(h.volume, data.volume),
                          trades |-> Append(h.trades, data.trades)]
             kept == [volume |-> IF Len(appended.volume) > min_data_points
                                 THEN last_n(appended.volume, min_data_points)
                                 ELSE appended.volume,
                      trades |-> IF Len(appended.trades) > min_data_points
                                 THEN last_n(appended.trades, min_data_points)
                                 ELSE appended.trades]
             progress == Len(kept.volume)
         IN  [history |-> kept,
              stats |-> update_statistics(st, kept),
              complete |-> (progress >= min_data_points)]

\* the for loop of initialize_from_db: add_metrics for every candle, in the order given
RECURSIVE add_all(_, _, _, _)
add_all(h, st, bc, candles) ==
    IF candles = <<>> THEN [history |-> h, stats |-> st, complete |-> bc]
    ELSE LET r == add_metrics(h, st, bc, [volume |-> Head(candles).volume,
                                          trades |-> Head(candles).num_trades])
         IN  add_all(r.history, r.stats, r.complete, Tail(candles))

\* get_validation_thresholds at the given hour
NoneThresholds == [is_none |-> TRUE, baseline_complete |-> FALSE, has_values |-> FALSE,
                   volume_x200 |-> 0, trades |-> 0]

\* get_validation_thresholds taking any recorded sample for a baseline
get_validation_thresholds_any(h, st, hour) ==
    IF ~st.present THEN NoneThresholds
    ELSE LET min_volume_x100 == percentile_x100(h.volume, percentile_threshold)
             min_trades == int_of_x100(percentile_x100(h.trades, percentile_threshold))
             low == (0 <= hour /\ hour < 8)
         IN  [is_none |-> FALSE, baseline_complete |-> TRUE, has_values |-> TRUE,
              volume_x200 |-> IF low THEN min_volume_x100 ELSE 2 * min_volume_x100,
              trades |-> IF low THEN min_trades \div 2 ELSE min_trades]

\* get_validation_thresholds halving the volume threshold alone
get_validation_thresholds_volume_only(h, st, hour) ==
    IF ~st.present THEN NoneThresholds
    ELSE IF ~(Len(h.volume) >= min_data_points)
    THEN [is_none |-> FALSE, baseline_complete |-> FALSE, has_values |-> FALSE,
          volume_x200 |-> 0, trades |-> 0]
    ELSE LET min_volume_x100 == percentile_x100(h.volume, percentile_threshold)
             min_trades == int_of_x100(percentile_x100(h.trades, percentile_threshold))
             low == (0 <= hour /\ hour < 8)
         IN  [is_none |-> FALSE, baseline_complete |-> TRUE, has_values |-> TRUE,
              volume_x200 |-> IF low THEN min_volume_x100 ELSE 2 * min_volume_x100,
              trades |-> min_trades]

get_validation_thresholds(h, st, hour) ==
    IF ~st.present THEN NoneThresholds
    ELSE IF ~(Len(h.volume) >= min_data_points)
    THEN [is_none |-> FALSE, baseline_complete |-> FALSE, has_values |-> FALSE,
          volume_x200 |-> 0, trades |-> 0]
    ELSE LET min_volume_x100 == percentile_x100(h.volume, percentile_threshold)
             min_trades == int_of_x100(percentile_x100(h.trades, percentile_threshold))
             low == (0 <= hour /\ hour < 8)
         IN  [is_none |-> FALSE, baseline_complete |-> TRUE, has_values |-> TRUE,
              volume_x200 |-> IF low THEN min_volume_x100 ELSE 2 * min_volume_x100,
              \* min_trades *= 0.5, then int(min_trades)
              trades |-> IF low THEN min_trades \div 2 ELSE min_trades]

\* Python's max() of two str: by code points; the three severities differ in their first letter
first_letter == [high |-> 104, low |-> 108, medium |-> 109]
py_max(a, b) == IF first_letter[b] > first_letter[a] THEN b ELSE a

\* the tiers with <= in place of <
severity_of_inclusive(v, t) ==
    IF 2 * v <= t THEN "high"
    ELSE IF 4 * v <= 3 * t THEN "medium"
    ELSE "low"

\* severity tier of value v against threshold t, both scaled by the same factor
severity_of(v, t) ==
    IF 2 * v < t THEN "high"
    ELSE IF 4 * v < 3 * t THEN "medium"
    ELSE "low"

InfoMessage(text) == [is_str |-> TRUE, type |-> "info", severity |-> "none", message |-> text]
Warning(type, severity) == [is_str |-> FALSE, type |-> type, severity |-> severity,
                            message |-> "below threshold"]

\* a metrics dict: keys says which entries are present; deficits are num/den, in percent
EmptyMetrics == [keys |-> {}, volume |-> 0, trades |-> 0, baseline_complete |-> FALSE,
                 volume_deficit |-> <<0, 1>>, trades_deficit |-> <<0, 1>>]

\* lines 141-205 of validate_data, given what get_validation_thresholds returned
validate_against(thresholds, data) ==
    LET volume == data.volume
        trades == data.trades
        metrics == [EmptyMetrics EXCEPT !.keys = {"volume", "trades", "baseline_complete"},
                                        !.volume = volume, !.trades = trades,
                                        !.baseline_complete = thresholds.baseline_complete]
    IN  IF thresholds.is_none
        THEN [is_valid |-> TRUE,
              warnings |-> <<InfoMessage("Initializing validation metrics...")>>,
              metrics |-> EmptyMetrics]
        ELSE IF ~thresholds.baseline_complete
        THEN [is_valid |-> TRUE,
              warnings |-> <<InfoMessage("Building baseline statistics...")>>,
              metrics |-> metrics]
        ELSE LET tv == thresholds.volume_x200
                 tt == thresholds.trades
                 vol_low == 200 * volume < tv
                 tr_low == trades < tt
                 vol_sev == severity_of(200 * volume, tv)
                 tr_sev == severity_of(trades, tt)
                 sev1 == IF vol_low THEN py_max("low", vol_sev) ELSE "low"
                 max_severity == IF tr_low THEN py_max(sev1, tr_sev) ELSE sev1
                 m1 == IF vol_low
                       THEN [metrics EXCEPT !.keys = @ \cup {"volume_deficit"},
                                            !.volume_deficit = <<(tv - 200 * volume) * 100, tv>>]
                       ELSE metrics
                 m2 == IF tr_low
                       THEN [m1 EXCEPT !.keys = @ \cup {"trades_deficit"},
                                       !.trades_deficit = <<(tt - trades) * 100, tt>>]
                       ELSE m1
             IN  [is_valid |-> max_severity # "high",
                  warnings |-> (IF vol_low THEN <<Warning("low_volume", vol_sev)>> ELSE <<>>)
                               \o (IF tr_low THEN <<Warning("low_trades", tr_sev)>> ELSE <<>>),
                  metrics |-> m2]

validate_data(h, st, data, hour) ==
    validate_against(get_validation_thresholds(h, st, hour), data)

(***************************************************************************)
(* The monitor on its own: any sequence of its public calls                *)
(***************************************************************************)
NoVerdict == [called |-> FALSE, key |-> <<"BTC", "1m">>, hour |-> 0,
              data |-> [volume |-> 0, trades |-> 0],
              thresholds |-> NoneThresholds,
              is_valid |-> TRUE, warnings |-> <<>>, metrics |-> EmptyMetrics]

CollectorInit ==
    /\ running = FALSE
    /\ sched = [pc |-> "not_started", cycle |-> 0, created |-> 0, tests |-> 0,
                collection_time |-> 0, sleep_time |-> 0, interrupted |-> "none",
                stop |-> "none", connected |-> "unknown"]
    /\ tasks = <<>>
    /\ current_timeframe = "unset"
    /\ initialization_done = [k \in Keys |-> FALSE]
    /\ ohlcv_data = {}
    /\ invalid_data = {}

MonInit ==
    /\ metrics_history = [k \in Keys |-> [volume |-> <<>>, trades |-> <<>>]]
    /\ statistics = [k \in Keys |-> NoStatistics]
    /\ baseline_complete = [k \in Keys |-> FALSE]
    /\ verdict = NoVerdict
    /\ call = [op |-> "none", key |-> <<"BTC", "1m">>, n |-> 0, historical_data |-> <<>>,
               data |-> [volume |-> 0, trades |-> 0]]

\* initialize_tracked_coins, run by DatabaseHandler.__init__: the serial ids of its inserts
tracked_coins == <<"BTC", "ETH", "BNB", "SOL">>

DatabaseInit ==
    /\ price_ticks = {}
    /\ coins = {[symbol |-> tracked_coins[i], id |-> i] : i \in 1..Len(tracked_coins)}
    /\ pool = <<>>

\* CryptoDataService.__init__
ServiceInit ==
    service = [running |-> FALSE, pc |-> "not_started", cancel |-> FALSE, signals |-> 0,
               shutdowns |-> <<>>, shutdown_calls |-> 0, stop_collection_calls |-> 0,
               sweeps |-> 0]

Init == MonInit /\ CollectorInit /\ DatabaseInit /\ ServiceInit

\* the monitor's three dicts after add_metrics(symbol, timeframe, data)
ApplyAdd(k, r) ==
    /\ metrics_history' = [metrics_history EXCEPT ![k] = r.history]
    /\ statistics' = [statistics EXCEPT ![k] = r.stats]
    /\ baseline_complete' = [baseline_complete EXCEPT ![k] = r.complete]

AddMetrics(k, data) ==
    /\ ~verdict.called
    /\ ApplyAdd(k, add_metrics(metrics_history[k], statistics[k], baseline_complete[k], data))
    /\ call' = [op |-> "add_metrics", key |-> k, n |-> 1, historical_data |-> <<>>, data |-> data]
    /\ UNCHANGED <<extVars, verdict, colVars, dbVars>>

\* Historical batches as get_ohlcv_data returns them: ORDER BY timestamp DESC
Batches ==
    {[i \in 1..n |-> [timestamp |-> n + 1 - i,
                      volume |-> SampleSeq[((i + o) % Len(SampleSeq)) + 1].volume,
                      num_trades |-> SampleSeq[((i + o) % Len(SampleSeq)) + 1].trades]]
     : n \in 0..MaxBatch, o \in 1..Len(SampleSeq)}

\* initialize_from_db with the batch the store returns (empty on a failed read)
InitializeFromDb(k, historical_data) ==
    /\ ~verdict.called
    /\ IF historical_data = <<>>
       THEN UNCHANGED <<metrics_history, statistics, baseline_complete>>
       ELSE ApplyAdd(k, add_all(metrics_history[k], statistics[k], baseline_complete[k],
                                historical_data))
    /\ call' = [op |-> "initialize_from_db", key |-> k, n |-> Len(historical_data),
                historical_data |-> historical_data, data |-> [volume |-> 0, trades |-> 0]]
    /\ UNCHANGED <<extVars, verdict, colVars, dbVars>>

\* a validate_data that records the point it is asked about
ValidateData_recording(k, data, hour) ==
    /\ ~verdict.called
    /\ verdict' = [called |-> TRUE, key |-> k, hour |-> hour, data |-> data,
                   thresholds |-> get_validation_thresholds(metrics_history[k], statistics[k], hour)]
                  @@ validate_data(metrics_history[k], statistics[k], data, hour)
    /\ call' = [op |-> "validate_data", key |-> k, n |-> 0, historical_data |-> <<>>,
                data |-> [volume |-> 0, trades |-> 0]]
    /\ ApplyAdd(k, add_metrics(metrics_history[k], statistics[k], baseline_complete[k], data))
    /\ UNCHANGED <<extVars, colVars, dbVars>>

\* validate_data(symbol, timeframe, data) at the given hour, get_validation_thresholds
\* included: the verdict is kept until the caller takes it
ValidateData(k, data, hour) ==
    /\ ~verdict.called
    /\ verdict' = [called |-> TRUE, key |-> k, hour |-> hour, data |-> data,
                   thresholds |-> get_validation_thresholds(metrics_history[k], statistics[k], hour)]
                  @@ validate_data(metrics_history[k], statistics[k], data, hour)
    /\ call' = [op |-> "validate_data", key |-> k, n |-> 0, historical_data |-> <<>>,
                data |-> [volume |-> 0, trades |-> 0]]
    /\ UNCHANGED <<extVars, metrics_history, statistics, baseline_complete, colVars, dbVars>>

\* the caller takes the returned verdict
ReturnVerdict ==
    /\ verdict.called
    /\ verdict' = NoVerdict
    /\ UNCHANGED <<extVars, metrics_history, statistics, baseline_complete, call, colVars, dbVars>>

MonNext ==
    \/ \E k \in MonKeys, d \in SampleValues : AddMetrics(k, d)
    \/ \E k \in MonKeys, b \in Batches : InitializeFromDb(k, b)
    \/ \E k \in MonKeys, v \in ProbeVolumes, t \in ProbeTrades, hr \in Hours :
           ValidateData(k, [volume |-> v, trades |-> t], hr)
    \/ ReturnVerdict

SpecMonitor == Init /\ [][MonNext]_vars

(***************************************************************************)
(* Properties of the monitor                                               *)
(***************************************************************************)
HighFindings(w) == {i \in 1..Len(w) : ~w[i].is_str /\ w[i].severity = "high"}
GradedFindings(w) == {i \in 1..Len(w) : ~w[i].is_str}
FindingsOf(w, type) == {i \in 1..Len(w) : ~w[i].is_str /\ w[i].type = type}
Window(k) == metrics_history[k]
Judged == verdict.called /\ verdict.thresholds.baseline_complete

\* C1 (as claimed): with the baseline complete, validate_data returns is_valid = false
\* exactly when some finding has severity high; a sample with volume at 40% of
\* min_volume and trade_count at the threshold yields the single finding
\* (low_volume, high) and is_valid = false.
C1_InvalidIffHighFinding ==
    Judged =>
        /\ (verdict.is_valid = FALSE) <=> (HighFindings(verdict.warnings) # {})
        /\ (/\ 5 * 200 * verdict.data.volume = 2 * verdict.thresholds.volume_x200
            /\ verdict.thresholds.volume_x200 > 0
            /\ verdict.data.trades = verdict.thresholds.trades)
           => /\ verdict.warnings = <<Warning("low_volume", "high")>>
              /\ verdict.is_valid = FALSE

\* C3: the window of every key never holds more than min_data_points samples, and
\* a step that removes samples from a window removes them from its old end: what is
\* kept of the old window is a suffix of it and stays at the front of the new one;
\* below the capacity nothing is removed at all.
C3_Bounded ==
    \A k \in Keys : /\ Len(Window(k).volume) <= min_data_points
                    /\ Len(Window(k).trades) <= min_data_points

KeepsSuffix(old, new) ==
    \E d \in 0..Len(old) :
        /\ Len(new) >= Len(old) - d
        /\ SubSeq(new, 1, Len(old) - d) = SubSeq(old, d + 1, Len(old))
        /\ (Len(new) < min_data_points => d = 0)

C3_WindowBoundedFifo ==
    /\ []C3_Bounded
    /\ [][\A k \in Keys : /\ KeepsSuffix(Window(k).volume, Window(k).volume')
                         /\ KeepsSuffix(Window(k).trades, Window(k).trades')]_vars

C3_Witness ==
    /\ call.op = "initialize_from_db"
    /\ call.n > min_data_points
    /\ Len(Window(call.key).volume) = min_data_points

TierOf(value, threshold) ==
    IF 100 * value < 50 * threshold THEN "high"
    ELSE IF 100 * value < 75 * threshold THEN "medium"
    ELSE "low"

C6_OneGradedFindingPerBreach ==
    Judged =>
        LET w == verdict.warnings
            v == 200 * verdict.data.volume
            tv == verdict.thresholds.volume_x200
            t == verdict.data.trades
            tt == verdict.thresholds.trades
        IN  /\ Cardinality(FindingsOf(w, "low_volume")) = IF v < tv THEN 1 ELSE 0
            /\ Cardinality(FindingsOf(w, "low_trades")) = IF t < tt THEN 1 ELSE 0
            /\ Len(w) = Cardinality(FindingsOf(w, "low_volume"))
                        + Cardinality(FindingsOf(w, "low_trades"))
            /\ \A i \in FindingsOf(w, "low_volume") : w[i].severity = TierOf(v, tv)
            /\ \A i \in FindingsOf(w, "low_trades") : w[i].severity = TierOf(t, tt)
            /\ (5 * v = 4 * tv /\ tv > 0 /\ t >= tt)
               => (w = <<Warning("low_volume", "low")>> /\ verdict.is_valid)

C6_Witness ==
    /\ Judged
    /\ 5 * 200 * verdict.data.volume = 4 * verdict.thresholds.volume_x200
    /\ verdict.thresholds.volume_x200 > 0
    /\ verdict.data.trades >= verdict.thresholds.trades
    /\ verdict.warnings = <<Warning("low_volume", "low")>>
    /\ verdict.is_valid

(***************************************************************************)
(* DatabaseHandler                                                         *)
(***************************************************************************)
\* the public methods DatabaseHandler defines
DatabaseHandlerMethods ==
    {"get_or_create_coin", "get_recent_ohlcv_data", "get_ohlcv_data", "save_ticker_data",
     "save_metadata", "initialize_tracked_coins", "save_ohlcv_data", "save_invalid_data"}

RowsOf(db, symbol, timeframe) == {r \in db : r.symbol = symbol /\ r.timeframe = timeframe}

\* ORDER BY timestamp DESC
RECURSIVE by_timestamp_desc(_)
by_timestamp_desc(S) ==
    IF S = {} THEN <<>>
    ELSE LET m == CHOOSE r \in S : \A q \in S : q.timestamp <= r.timestamp
         IN  <<m>> \o by_timestamp_desc(S \ {m})

\* get_ohlcv_data: every row of the key read here lies within the last 7 days
get_ohlcv_data(db, symbol, timeframe) == by_timestamp_desc(RowsOf(db, symbol, timeframe))

\* get_recent_ohlcv_data: ... LIMIT limit
get_recent_ohlcv_data(db, symbol, timeframe, limit) ==
    LET all == by_timestamp_desc(RowsOf(db, symbol, timeframe))
    IN  IF Len(all) > limit THEN SubSeq(all, 1, limit) ELSE all

\* save_ohlcv_data, lines 280-297: the SELECT of the row of this timestamp and timeframe,
\* and the comparison that logs a duplicate
existing_row(db, symbol, timeframe, kline) ==
    LET found == {r \in db : r.symbol = symbol /\ r.timeframe = timeframe
                                               /\ r.timestamp = kline.timestamp}
    IN  IF found = {} THEN "none"
        ELSE IF \E r \in found : r.volume = kline.volume /\ r.num_trades = kline.num_trades
        THEN "duplicate"
        ELSE "differs"

\* an INSERT without the ON CONFLICT clause, on a table without the unique constraint
save_ohlcv_data_insert_only(db, symbol, timeframe, kline) ==
    db \cup {[symbol |-> symbol, timeframe |-> timeframe, timestamp |-> kline.timestamp,
              open |-> kline.open, high |-> kline.high, low |-> kline.low, close |-> kline.close,
              volume |-> kline.volume, num_trades |-> kline.num_trades]}

\* save_ohlcv_data: INSERT ... ON CONFLICT (coin_id, timestamp, timeframe) DO UPDATE
save_ohlcv_data(db, symbol, timeframe, kline) ==
    {r \in db : ~(r.symbol = symbol /\ r.timeframe = timeframe /\ r.timestamp = kline.timestamp)}
    \cup {[symbol |-> symbol, timeframe |-> timeframe, timestamp |-> kline.timestamp,
           open |-> kline.open, high |-> kline.high, low |-> kline.low, close |-> kline.close,
           volume |-> kline.volume, num_trades |-> kline.num_trades]}

\* save_invalid_data: INSERT INTO invalid_data
save_invalid_data(inv, symbol, data_type, timeframe, data, error_message) ==
    inv \cup {[symbol |-> symbol, data_type |-> data_type, timeframe |-> timeframe,
               raw_data |-> data, error_message |-> error_message]}

(***************************************************************************)
(* CryptoDataCollector: validation of a kline                              *)
(***************************************************************************)
DEFAULT_MIN_TRADES == [t \in timeframes |->
    CASE t = "1m" -> 2 [] t = "5m" -> 20 [] t = "15m" -> 50
      [] t = "1h" -> 150 [] t = "4h" -> 500 [] t = "1d" -> 2000]

\* DEFAULT_MIN_VOLUME times 10
DEFAULT_MIN_VOLUME_x10 == [t \in timeframes |->
    CASE t = "1m" -> 1 [] t = "5m" -> 5 [] t = "15m" -> 15
      [] t = "1h" -> 50 [] t = "4h" -> 150 [] t = "1d" -> 500]

Min(a, b) == IF a <= b THEN a ELSE b

RECURSIVE Gcd(_, _)
Gcd(a, b) == IF b = 0 THEN a ELSE Gcd(b, a % b)

\* a fraction in lowest terms (the value is the same; the numbers stay small)
Reduced(f) == <<f[1] \div Gcd(f[1], f[2]), f[2] \div Gcd(f[1], f[2])>>

\* get_market_activity_multiplier, as the fraction <<numerator, denominator>>
get_market_activity_multiplier(recent_data, timeframe, hour) ==
    IF recent_data = <<>> THEN <<1, 2>>
    ELSE LET n == Len(recent_data)
             sum_volume == Sum([i \in 1..n |-> recent_data[i].volume])
             sum_trades == Sum([i \in 1..n |-> recent_data[i].num_trades])
             base_trades == DEFAULT_MIN_TRADES[timeframe]
             base_volume_x10 == DEFAULT_MIN_VOLUME_x10[timeframe]
             d == n * base_volume_x10 * base_trades
             \* min(avg / base, 3.0), over the denominator d
             volume_ratio == Min(10 * sum_volume * base_trades, 3 * d)
             trades_ratio == Min(sum_trades * base_volume_x10, 3 * d)
             num == volume_ratio + trades_ratio
             den == 2 * d * (IF 0 <= hour /\ hour < 8 THEN 2 ELSE 1)
         IN  \* max(0.3, min(activity_multiplier, 1.5))
             IF 10 * num < 3 * den THEN <<3, 10>>
             ELSE IF 10 * num > 15 * den THEN <<15, 10>>
             ELSE Reduced(<<num, den>>)

\* get_dynamic_thresholds: min_trades = int(base * m), min_volume = base * m as a fraction
get_dynamic_thresholds(recent_data, timeframe, hour) ==
    LET m == get_market_activity_multiplier(recent_data, timeframe, hour)
    IN  [min_trades |-> (DEFAULT_MIN_TRADES[timeframe] * m[1]) \div m[2],
         min_volume |-> <<DEFAULT_MIN_VOLUME_x10[timeframe] * m[1], 10 * m[2]>>]

\* The klines the exchange may answer with (data[0] of the payload)
Kline(o, h, l, c, v, n) ==
    [timestamp |-> 0, open |-> o, high |-> h, low |-> l, close |-> c, volume |-> v,
     num_trades |-> n, parses |-> TRUE]
KBig == Kline(100, 110, 90, 105, 300, 6000)
KMid == Kline(100, 110, 90, 105, 100, 2000)
KThin == Kline(100, 110, 90, 105, 300, 0)
KDry == Kline(100, 110, 90, 105, 0, 6000)
KFlat == Kline(100, 100, 100, 100, 300, 6000)
KHighBelowLow == Kline(12, 10, 15, 12, 300, 6000)
KZeroPrice == Kline(0, 110, 90, 105, 300, 6000)
KNegativeVolume == Kline(100, 110, 90, 105, -1, 6000)
KGarbled == [Kline(100, 110, 90, 105, 300, 6000) EXCEPT !.parses = FALSE]
NoKline == Kline(0, 0, 0, 0, 0, 0)
Klines == {KBig, KMid, KThin, KDry, KFlat, KHighBelowLow, KZeroPrice, KNegativeVolume, KGarbled}

\* the basic validations checking the prices alone
structural_error_prices_only(d) ==
    IF ~d.parses THEN "Data format error"
    ELSE IF d.open <= 0 \/ d.high <= 0 \/ d.low <= 0 \/ d.close <= 0
    THEN "All prices must be positive"
    ELSE ""

\* lines 346-363: the conversions and the basic validations; "" when they pass
structural_error(d) ==
    IF ~d.parses THEN "Data format error"
    ELSE IF d.open <= 0 \/ d.high <= 0 \/ d.low <= 0 \/ d.close <= 0
    THEN "All prices must be positive"
    ELSE IF d.high < d.low THEN "High price cannot be lower than low price"
    ELSE IF d.volume < 0 THEN "Volume cannot be negative"
    ELSE ""

\* the checks of lines 370-396 without the dynamic thresholds
threshold_error_no_activity(d, timeframe, thresholds) ==
    IF timeframe \in {"5m", "15m", "1h", "4h", "1d"}
    THEN IF (d.high - d.low) * 10000 < d.low THEN "Suspicious price range"
         ELSE IF d.open = d.high /\ d.high = d.low /\ d.low = d.close
         THEN "All OHLC prices identical"
         ELSE ""
    ELSE ""

\* lines 370-396: the dynamic thresholds and the checks for larger timeframes; "" when they pass
threshold_error(d, timeframe, thresholds) ==
    IF d.num_trades < thresholds.min_trades THEN "Low trade count"
    ELSE IF d.volume * thresholds.min_volume[2] < thresholds.min_volume[1] THEN "Low volume"
    ELSE IF timeframe \in {"5m", "15m", "1h", "4h", "1d"}
    THEN \* (high - low) / low * 100 < 0.01
         IF (d.high - d.low) * 10000 < d.low THEN "Suspicious price range"
         ELSE IF d.open = d.high /\ d.high = d.low /\ d.low = d.close
         THEN "All OHLC prices identical"
         ELSE ""
    ELSE ""

\* lines 401-440: add_metrics, validate_data and what validate_ohlcv_data does with the verdict.
\* result is "true"/"false" for the value returned, "AttributeError" when
\* self.db.save_validation_metrics is looked up and DatabaseHandler has no such method.
validation_result(r, t, v) ==
    [history |-> r.history, stats |-> r.stats, complete |-> r.complete,
     judged |-> (~t.is_none /\ t.baseline_complete),
     \* line 427 is reached and the handler has the method it calls
     metrics_saved |-> /\ ~(Len(v.warnings) = 1 /\ v.warnings[1].is_str)
                       /\ "save_validation_metrics" \in DatabaseHandlerMethods,
     result |-> IF Len(v.warnings) = 1 /\ v.warnings[1].is_str THEN "true"
                ELSE IF "save_validation_metrics" \notin DatabaseHandlerMethods
                THEN "AttributeError"
                ELSE IF v.is_valid THEN "true" ELSE "false"]

\* r is the monitor's key after add_metrics
validate_recorded(r, data, hour) ==
    validation_result(r, get_validation_thresholds(r.history, r.stats, hour),
                      validate_data(r.history, r.stats, data, hour))

record_and_validate(h, st, bc, d, hour) ==
    validate_recorded(add_metrics(h, st, bc, [volume |-> d.volume, trades |-> d.num_trades]),
                      [volume |-> d.volume, trades |-> d.num_trades], hour)

(***************************************************************************)
(* CryptoDataCollector: the fetch tasks and continuous_collection          *)
(***************************************************************************)
\* Bounds of the collector-level specifications
MaxCycles == 2
Statuses == {"200", "429", "404", "500", "exception"}
\* the fetch tasks whose steps a specification follows
TrackedSymbols == {<<"BTC", "1d">>, <<"ETH", "1d">>}
TrackedTimeframes == {<<"BTC", "1m">>, <<"BTC", "1d">>}

\* the loop of lines 317-322 creating the kline tasks only
RECURSIVE task_list_from_klines_only(_)
task_list_from_klines_only(i) ==
    IF i > Len(symbols) THEN <<>>
    ELSE [j \in 1..Len(timeframes_order) |-> <<symbols[i], timeframes_order[j]>>]
         \o task_list_from_klines_only(i + 1)

\* lines 317-322: the tasks of one cycle in creation order, as <<symbol, kind>>
RECURSIVE task_list_from(_)
task_list_from(i) ==
    IF i > Len(symbols) THEN <<>>
    ELSE <<<<symbols[i], "ticker">>>>
         \o [j \in 1..Len(timeframes_order) |-> <<symbols[i], timeframes_order[j]>>]
         \o task_list_from(i + 1)
task_list == task_list_from(1)
AllTasks == {task_list[i] : i \in 1..Len(task_list)}

\* Every task runs to its first suspension (session.get) in creation order, so after
\* the dispatch self.current_timeframe is the timeframe of the kline task created last.
RECURSIVE last_kline_timeframe(_, _)
last_kline_timeframe(list, sofar) ==
    IF list = <<>> THEN sofar
    ELSE last_kline_timeframe(Tail(list),
                              IF Head(list)[2] = "ticker" THEN sofar ELSE Head(list)[2])

\* The bodies a ticker request may be answered with.  symbol, lastPrice and volume are the
\* JSON values as text ("null" for a JSON null); fields are the keys present.
ticker_fields == {"symbol", "lastPrice", "volume", "quoteVolume", "closeTime", "bidPrice",
                  "askPrice"}
Ticker(symbol, lastPrice, volume) ==
    [is_json |-> TRUE, fields |-> ticker_fields, symbol |-> symbol, lastPrice |-> lastPrice,
     volume |-> volume, closeTime |-> 0]
TSound == Ticker("BTCUSDT", "100", "28")
TNoQuoteVolume == [TSound EXCEPT !.fields = ticker_fields \ {"quoteVolume"}]
TNoBid == [TSound EXCEPT !.fields = ticker_fields \ {"bidPrice"}]
TZeroPrice == Ticker("BTCUSDT", "0", "28")
TNegativeVolume == Ticker("BTCUSDT", "100", "-1")
TOtherQuote == Ticker("BTCEUR", "100", "28")
TPriceText == Ticker("BTCUSDT", "abc", "28")
TPriceNaN == Ticker("BTCUSDT", "NaN", "28")
TSymbolNull == Ticker("null", "100", "28")
TNotJson == [TSound EXCEPT !.is_json = FALSE]
NoTicker == Ticker("", "", "")
Tickers == {TSound, TNoQuoteVolume, TNoBid, TZeroPrice, TNegativeVolume, TOtherQuote,
            TPriceText, TPriceNaN, TSymbolNull, TNotJson}

\* float(text) on the texts above: the number, nan, or ValueError / TypeError
py_float(text) ==
    CASE text = "100" -> [raises |-> FALSE, nan |-> FALSE, value |-> 100]
      [] text = "28" -> [raises |-> FALSE, nan |-> FALSE, value |-> 28]
      [] text = "0" -> [raises |-> FALSE, nan |-> FALSE, value |-> 0]
      [] text = "-1" -> [raises |-> FALSE, nan |-> FALSE, value |-> -1]
      [] text = "NaN" -> [raises |-> FALSE, nan |-> TRUE, value |-> 0]
      [] OTHER -> [raises |-> TRUE, nan |-> FALSE, value |-> 0]

\* str.endswith('USDT') on the symbols above
ends_with_USDT(symbol) == symbol = "BTCUSDT"

\* validate_ticker_data: returns True (raises = "none") or raises.  A comparison with nan
\* is false; None has no endswith, and AttributeError is not among the exceptions wrapped.
validate_ticker_data(data) ==
    IF ~({"symbol", "lastPrice", "volume", "quoteVolume"} \subseteq data.fields)
    THEN [raises |-> "ValidationError", message |-> "Missing required fields in ticker data"]
    ELSE IF py_float(data.lastPrice).raises
    THEN [raises |-> "ValidationError", message |-> "Ticker data format error"]
    ELSE IF ~py_float(data.lastPrice).nan /\ py_float(data.lastPrice).value <= 0
    THEN [raises |-> "ValidationError", message |-> "Price must be positive"]
    ELSE IF py_float(data.volume).raises
    THEN [raises |-> "ValidationError", message |-> "Ticker data format error"]
    ELSE IF ~py_float(data.volume).nan /\ py_float(data.volume).value < 0
    THEN [raises |-> "ValidationError", message |-> "Volume cannot be negative"]
    ELSE IF data.symbol = "null"
    THEN [raises |-> "AttributeError", message |-> ""]
    ELSE IF ~ends_with_USDT(data.symbol)
    THEN [raises |-> "ValidationError", message |-> "Invalid trading pair - must end with USDT"]
    ELSE [raises |-> "none", message |-> ""]

NewTask(cycle, t) ==
    [symbol |-> t[1], kind |-> t[2], cycle |-> cycle, pc |-> "fetch", status |-> "pending",
     data |-> NoKline, timeframe_used |-> "unset", error_message |-> "",
     sink |-> "none", stored |-> FALSE, recorded |-> FALSE, judged |-> FALSE,
     backoff |-> 0, outcome |-> "pending", existing |-> "unread", metrics_saved |-> FALSE,
     is_valid |-> "pending", ticker |-> NoTicker]

Live == {id \in DOMAIN tasks : tasks[id].pc # "done"}

StartCollection ==
    /\ sched.pc = "not_started"
    /\ running' = TRUE
    /\ sched' = [sched EXCEPT !.pc = "test_connection"]
    /\ UNCHANGED <<extVars, monVars, dbVars, tasks, current_timeframe, initialization_done>>

\* a start-up that goes on whatever test_connection returned
TestConnection_ignoring_result(ok) ==
    /\ sched.pc = "test_connection"
    /\ sched' = [sched EXCEPT !.pc = "sync", !.tests = @ + 1,
                              !.connected = IF ok THEN "yes" ELSE "no"]
    /\ UNCHANGED <<extVars, monVars, dbVars, running, tasks, current_timeframe, initialization_done>>

\* lines 298-300: test_connection (status 200, or another status or an exception), and
\* return when it failed
TestConnection(ok) ==
    /\ sched.pc = "test_connection"
    /\ sched' = [sched EXCEPT !.pc = IF ok THEN "sync" ELSE "returned", !.tests = @ + 1,
                              !.connected = IF ok THEN "yes" ELSE "no"]
    /\ UNCHANGED <<extVars, monVars, dbVars, running, tasks, current_timeframe, initialization_done>>

\* the initial synchronisation to the next minute mark
Synchronise ==
    /\ sched.pc = "sync"
    /\ sched' = [sched EXCEPT !.pc = "loop"]
    /\ UNCHANGED <<extVars, monVars, dbVars, running, tasks, current_timeframe, initialization_done>>

\* the list `tasks` a cycle builds, as task ids <<cycle, symbol, kind>>, among those in tracked
RECURSIVE dispatch_tasks(_, _, _)
dispatch_tasks(cycle, list, tracked) ==
    IF list = <<>> THEN <<>>
    ELSE (IF Head(list) \in tracked THEN <<<<cycle, Head(list)[1], Head(list)[2]>>>> ELSE <<>>)
         \o dispatch_tasks(cycle, Tail(list), tracked)

\* the task table once the tasks of list are created next to those still running
created_tasks(tk, live, list) ==
    [id \in live \cup {list[i] : i \in 1..Len(list)} |->
        IF id \in live THEN tk[id] ELSE NewTask(id[1], <<id[2], id[3]>>)]

\* lines 311-325: while self.running: create the tasks, then await gather
Dispatch(tracked) ==
    /\ sched.pc = "loop"
    /\ running
    /\ sched.cycle < MaxCycles
    /\ tasks' = created_tasks(tasks, Live, dispatch_tasks(sched.cycle + 1, task_list, tracked))
    /\ sched' = [sched EXCEPT !.pc = "gather", !.cycle = sched.cycle + 1,
                              !.created = Len(dispatch_tasks(sched.cycle + 1, task_list, tracked)),
                              !.collection_time = 0, !.sleep_time = 0]
    /\ current_timeframe' = last_kline_timeframe(task_list, current_timeframe)
    /\ invalid_data' = {}
    /\ UNCHANGED <<extVars, monVars, ohlcv_data, running, initialization_done>>

\* a wait that returns as soon as one task of the cycle is done
gather_first_completed(tk, cycle) == \E id \in DOMAIN tk : tk[id].cycle = cycle /\ tk[id].pc = "done"

\* the seconds a cycle may have taken when gather returns (collection_time): never less
\* than the longest sleep one of its tasks went through
Elapsed == {12, 60, 75}

Max(a, b) == IF a >= b THEN a ELSE b

\* the 60 of sleep_time = max(0, 60 - collection_time)
period == 60

\* the remainder of the period without the max(0, ...)
sleep_times_unclamped(collection_time) == {period - collection_time}

\* lines 328-329: the durations the loop can sleep after a cycle that took collection_time
sleep_times(collection_time) == {Max(0, period - collection_time)}

\* asyncio.gather(*tasks, return_exceptions=True) returns once every task of the cycle is done
gather_ready(tk, cycle) == \A id \in DOMAIN tk : tk[id].cycle = cycle => tk[id].pc = "done"

Gather ==
    /\ sched.pc = "gather"
    /\ gather_ready(tasks, sched.cycle)
    /\ \E collection_time \in Elapsed : \E sleep_time \in sleep_times(collection_time) :
           /\ \A id \in DOMAIN tasks : tasks[id].backoff <= collection_time
           /\ sched' = [sched EXCEPT !.pc = "sleep", !.collection_time = collection_time,
                                     !.sleep_time = sleep_time]
    /\ UNCHANGED <<extVars, monVars, dbVars, running, tasks, current_timeframe, initialization_done>>

\* await asyncio.sleep(sleep_time) returns; the locals of the iteration are dead
Sleep ==
    /\ sched.pc = "sleep"
    /\ sched' = [sched EXCEPT !.pc = "loop", !.collection_time = 0, !.sleep_time = 0]
    /\ UNCHANGED <<extVars, monVars, dbVars, running, tasks, current_timeframe, initialization_done>>

\* a task table in which a task that fails cancels the other running tasks
task_step_cancelling(tk, id, t) ==
    [o \in DOMAIN tk |->
        IF o = id THEN t
        ELSE IF t.pc = "backoff" /\ tk[o].pc # "done"
        THEN [tk[o] EXCEPT !.pc = "done", !.outcome = "cancelled"]
        ELSE tk[o]]

\* the task table after task id took the step that leaves it as t (only its own entry changes)
task_step(tk, id, t) == [tk EXCEPT ![id] = t]

\* except Exception: log and sleep 5 (lines 232-234)
Failed(t, outcome) == [t EXCEPT !.pc = "backoff", !.backoff = 5, !.outcome = outcome]

\* a caller that saves the kline whatever validate_ohlcv_data returned
AfterValidation_saving_anyway(t, r) ==
    [t EXCEPT !.recorded = TRUE, !.judged = r.judged, !.metrics_saved = r.metrics_saved,
              !.is_valid = r.result, !.pc = "save_ohlcv"]

\* after the monitor part of validate_ohlcv_data: the task, given record_and_validate's result
AfterValidation(t, r) ==
    LET t1 == [t EXCEPT !.recorded = TRUE, !.judged = r.judged, !.metrics_saved = r.metrics_saved,
                        !.is_valid = r.result]
    IN  IF r.result = "true" THEN [t1 EXCEPT !.pc = "save_ohlcv"]
        ELSE IF r.result = "AttributeError" THEN Failed(t1, "exception")
        ELSE [t1 EXCEPT !.pc = "done", !.outcome = "rejected"]

\* validate_ohlcv_data raises ValidationError(reason)
Rejected(t, reason) ==
    [t EXCEPT !.pc = "save_invalid", !.error_message = reason, !.is_valid = "ValidationError"]

\* lines 194-234 up to the first await inside validate_ohlcv_data: the response arrives
KlineRespond(id, status, kline, ts) ==
    /\ tasks[id].pc = "fetch" /\ tasks[id].kind # "ticker"
    /\ LET t == [tasks[id] EXCEPT !.status = status]
           d == [kline EXCEPT !.timestamp = ts]
       IN  tasks' = task_step(tasks, id,
              CASE status = "200" ->
                     LET t1 == [t EXCEPT !.data = d, !.timeframe_used = current_timeframe]
                     IN  IF structural_error(d) # "" THEN Rejected(t1, structural_error(d))
                         ELSE [t1 EXCEPT !.pc = "thresholds"]
                [] status = "429" -> [t EXCEPT !.pc = "backoff", !.backoff = 60, !.outcome = "rate_limited"]
                [] status = "404" -> [t EXCEPT !.pc = "backoff", !.backoff = 5, !.outcome = "not_found"]
                [] status = "500" -> [t EXCEPT !.pc = "backoff", !.backoff = 5, !.outcome = "bad_status"]
                [] OTHER -> Failed(t, "exception"))
    /\ UNCHANGED <<extVars, monVars, dbVars, running, sched, current_timeframe, initialization_done>>

\* the monitor after add_metrics/validate_data under key k
ApplyRecord(k, r) ==
    /\ metrics_history' = [metrics_history EXCEPT ![k] = r.history]
    /\ statistics' = [statistics EXCEPT ![k] = r.stats]
    /\ baseline_complete' = [baseline_complete EXCEPT ![k] = r.complete]

\* lines 401-443 for task id, whose entry is t, under monitor key k with result r
Validated(id, t, k, r) ==
    /\ tasks' = task_step(tasks, id, AfterValidation(t, r))
    /\ ApplyRecord(k, r)

\* lines 370-400 for task id, whose entry is t: err is what the checks raise, k the monitor key
Checked(id, t, k, err, hour) ==
    IF err # ""
    THEN /\ tasks' = task_step(tasks, id, Rejected(t, err))
         /\ UNCHANGED <<metrics_history, statistics, baseline_complete>>
    ELSE IF ~initialization_done[k]
    THEN /\ tasks' = task_step(tasks, id, [t EXCEPT !.pc = "seed"])
         /\ UNCHANGED <<metrics_history, statistics, baseline_complete>>
    ELSE \E r \in {record_and_validate(metrics_history[k], statistics[k],
                                       baseline_complete[k], t.data, hour)} :
             Validated(id, t, k, r)

\* get_dynamic_thresholds returns (the read yields no rows when it fails), lines 365-396;
\* with initialization done the rest of validate_ohlcv_data follows without suspension
KlineThresholds(id, db_ok, hour) ==
    /\ tasks[id].pc = "thresholds"
    /\ Checked(id, tasks[id], <<tasks[id].symbol, current_timeframe>>,
               threshold_error(tasks[id].data, tasks[id].timeframe_used,
                   get_dynamic_thresholds(
                       IF db_ok
                       THEN get_recent_ohlcv_data(ohlcv_data, tasks[id].symbol,
                                                  tasks[id].timeframe_used, 5)
                       ELSE <<>>,
                       tasks[id].timeframe_used, hour)),
               hour)
    /\ UNCHANGED <<extVars, verdict, call, dbVars, running, sched, current_timeframe, initialization_done>>

\* lines 481-485 and 401-443 for task id, whose entry is t, given the rows initialize_from_db read
Seeded(id, t, k, historical_data, hour) ==
    /\ initialization_done' = [initialization_done EXCEPT ![k] = (historical_data # <<>>)]
    /\ \E seeded \in {add_all(metrics_history[k], statistics[k], baseline_complete[k],
                             historical_data
                             \o <<[volume |-> t.data.volume, num_trades |-> t.data.num_trades]>>)} :
       \E r \in {validate_recorded(seeded, [volume |-> t.data.volume, trades |-> t.data.num_trades],
                                   hour)} :
           Validated(id, t, k, r)

\* initialize_from_db returns (the read yields no rows when it fails), lines 481-485,
\* then add_metrics and validate_data
KlineSeed(id, db_ok, hour) ==
    /\ tasks[id].pc = "seed"
    /\ \E historical_data \in {IF db_ok
                                THEN get_ohlcv_data(ohlcv_data, tasks[id].symbol, current_timeframe)
                                ELSE <<>>} :
           Seeded(id, tasks[id], <<tasks[id].symbol, current_timeframe>>, historical_data, hour)
    /\ UNCHANGED <<extVars, verdict, call, dbVars, running, sched, current_timeframe>>

\* await self.db.save_ohlcv_data(symbol, timeframe, data): written, or the store raises
KlineSave(id, db_ok) ==
    /\ tasks[id].pc = "save_ohlcv"
    /\ LET t == [tasks[id] EXCEPT !.sink = "save_ohlcv_data", !.stored = db_ok]
       IN  IF db_ok
           THEN /\ ohlcv_data' = save_ohlcv_data(ohlcv_data, t.symbol, t.kind, t.data)
                /\ tasks' = task_step(tasks, id,
                      [t EXCEPT !.pc = "done", !.outcome = "saved",
                                !.existing = existing_row(ohlcv_data, t.symbol, t.kind, t.data)])
           ELSE /\ UNCHANGED ohlcv_data
                /\ tasks' = task_step(tasks, id, Failed(t, "store_error"))
    /\ UNCHANGED <<extVars, monVars, invalid_data, running, sched, current_timeframe, initialization_done>>

\* except ValidationError: await self.db.save_invalid_data(...); the store's error is
\* raised again by save_invalid_data and caught at lines 232-234
KlineQuarantine(id, db_ok) ==
    /\ tasks[id].pc = "save_invalid" /\ tasks[id].kind # "ticker"
    /\ LET t == [tasks[id] EXCEPT !.sink = "save_invalid_data", !.stored = db_ok]
       IN  /\ invalid_data' = IF db_ok
                              THEN save_invalid_data(invalid_data, t.symbol, "klines", t.kind,
                                                     t.data, t.error_message)
                              ELSE invalid_data
           /\ tasks' = task_step(tasks, id,
                  IF db_ok THEN [t EXCEPT !.pc = "done", !.outcome = "quarantined"]
                  ELSE Failed(t, "store_error"))
    /\ UNCHANGED <<extVars, monVars, ohlcv_data, running, sched, current_timeframe, initialization_done>>

\* a task that issues its request again once its sleep is over
BackoffOver_retrying(id) ==
    /\ tasks[id].pc = "backoff"
    /\ tasks' = task_step(tasks, id, [tasks[id] EXCEPT !.pc = "fetch"])
    /\ UNCHANGED <<extVars, monVars, dbVars, running, sched, current_timeframe, initialization_done>>

\* await asyncio.sleep(60) or asyncio.sleep(5) returns and the task ends
BackoffOver(id) ==
    /\ tasks[id].pc = "backoff"
    /\ tasks' = task_step(tasks, id, [tasks[id] EXCEPT !.pc = "done"])
    /\ UNCHANGED <<extVars, monVars, dbVars, running, sched, current_timeframe, initialization_done>>

\* collect_ticker_data or collect_klines_data as one step: the task returns (each catches
\* every Exception it meets), whatever it fetched
TaskEnds(id) ==
    /\ tasks[id].pc = "fetch"
    /\ tasks' = task_step(tasks, id, [tasks[id] EXCEPT !.pc = "done", !.outcome = "ended"])
    /\ UNCHANGED <<extVars, monVars, dbVars, running, sched, current_timeframe, initialization_done>>

\* the open time of the candle a kline fetch of this cycle returns: a new candle
\* every cycle (a minute), the same candle all along for 1d
candle_time(cycle, kind) == IF kind = "1d" THEN 1 ELSE cycle

\* the exchange answers the fetch of task id with status 200 and a kline
KlineAnswered(id, kline) == KlineRespond(id, "200", kline, candle_time(id[1], id[3]))

\* the exchange answers with another status, or the request fails
KlineFailed(id, status) == KlineRespond(id, status, NoKline, 0)

\* Two symbols fetched concurrently; the klines answered are sound or have high below low
SymbolKlines == {KBig, KHighBelowLow}

Next ==
    \/ StartCollection
    \/ \E ok \in BOOLEAN : TestConnection(ok)
    \/ Synchronise
    \/ Dispatch(TrackedSymbols)
    \/ Gather
    \/ Sleep
    \/ \E id \in DOMAIN tasks, kline \in SymbolKlines : KlineAnswered(id, kline)
    \/ \E id \in DOMAIN tasks, status \in Statuses \ {"200"} : KlineFailed(id, status)
    \/ \E id \in DOMAIN tasks, db_ok \in BOOLEAN, hour \in Hours : KlineThresholds(id, db_ok, hour)
    \/ \E id \in DOMAIN tasks, db_ok \in BOOLEAN, hour \in Hours : KlineSeed(id, db_ok, hour)
    \/ \E id \in DOMAIN tasks, db_ok \in BOOLEAN : KlineSave(id, db_ok)
    \/ \E id \in DOMAIN tasks, db_ok \in BOOLEAN : KlineQuarantine(id, db_ok)
    \/ \E id \in DOMAIN tasks : BackoffOver(id)

Spec == Init /\ [][Next]_vars

\* Two timeframes of one symbol fetched concurrently, every kind of kline
KlineNext ==
    \/ StartCollection
    \/ \E ok \in BOOLEAN : TestConnection(ok)
    \/ Synchronise
    \/ Dispatch(TrackedTimeframes)
    \/ Gather
    \/ Sleep
    \/ \E id \in DOMAIN tasks, kline \in Klines : KlineAnswered(id, kline)
    \/ \E id \in DOMAIN tasks, status \in Statuses \ {"200"} : KlineFailed(id, status)
    \/ \E id \in DOMAIN tasks, db_ok \in BOOLEAN, hour \in Hours : KlineThresholds(id, db_ok, hour)
    \/ \E id \in DOMAIN tasks, db_ok \in BOOLEAN, hour \in Hours : KlineSeed(id, db_ok, hour)
    \/ \E id \in DOMAIN tasks, db_ok \in BOOLEAN : KlineSave(id, db_ok)
    \/ \E id \in DOMAIN tasks, db_ok \in BOOLEAN : KlineQuarantine(id, db_ok)
    \/ \E id \in DOMAIN tasks : BackoffOver(id)

SpecKline == Init /\ [][KlineNext]_vars

\* Every task of a cycle.  The body of a task is followed step by step for the kline
\* fetch of SchedFollowed when the fetch fails; any other body is the one step TaskEnds.
SchedFollowed == <<"BTC", "1m">>

SchedNext ==
    \/ StartCollection
    \/ \E ok \in BOOLEAN : TestConnection(ok)
    \/ Synchronise
    \/ Dispatch(AllTasks)
    \/ Gather
    \/ Sleep
    \/ \E id \in DOMAIN tasks : TaskEnds(id)
    \/ \E id \in DOMAIN tasks, status \in Statuses \ {"200"} :
           <<id[2], id[3]>> = SchedFollowed /\ KlineFailed(id, status)
    \/ \E id \in DOMAIN tasks : BackoffOver(id)

SpecSched == Init /\ [][SchedNext]_vars

(***************************************************************************)
(* The loop on its own: start-up, timing, failing fetches, shutdown        *)
(***************************************************************************)
\* collect_ticker_data, lines 168-179: a status other than 200, or the request fails
TickerFailed(id, status) ==
    /\ tasks[id].pc = "fetch" /\ tasks[id].kind = "ticker"
    /\ LET t == [tasks[id] EXCEPT !.status = status]
       IN  tasks' = task_step(tasks, id,
              CASE status = "429" -> [t EXCEPT !.pc = "backoff", !.backoff = 60, !.outcome = "rate_limited"]
                [] status = "404" -> [t EXCEPT !.pc = "backoff", !.backoff = 5, !.outcome = "not_found"]
                [] status = "500" -> [t EXCEPT !.pc = "backoff", !.backoff = 5, !.outcome = "bad_status"]
                [] OTHER -> Failed(t, "exception"))
    /\ UNCHANGED <<extVars, monVars, dbVars, running, sched, current_timeframe, initialization_done>>

\* str.replace('USDT', '') on the symbols of the model
clean_symbol(symbol) == IF symbol = "BTCUSDT" THEN "BTC" ELSE symbol

\* get_or_create_coin run alone: the id of the symbol's row, inserted when there is none
get_or_create_coin(table, symbol) ==
    IF \E c \in table : c.symbol = clean_symbol(symbol)
    THEN [coins |-> table,
          id |-> (CHOOSE c \in table : c.symbol = clean_symbol(symbol)).id]
    ELSE [coins |-> table \cup {[symbol |-> clean_symbol(symbol), id |-> Cardinality(table) + 1]},
          id |-> Cardinality(table) + 1]

\* save_ticker_data's statement: INSERT INTO price_ticks ... ON CONFLICT (coin_id, timestamp,
\* source) DO NOTHING, the source being 'binance'
save_ticker_data(ticks, coin_id, data) ==
    IF \E r \in ticks : r.coin_id = coin_id /\ r.timestamp = data.closeTime THEN ticks
    ELSE ticks \cup {[coin_id |-> coin_id, timestamp |-> data.closeTime,
                      price |-> py_float(data.lastPrice), volume |-> py_float(data.volume)]}

\* collect_ticker_data, lines 151-167: status 200; response.json() raises on a body that is
\* not JSON; validate_ticker_data returns True, raises ValidationError, or raises otherwise
TickerAnswered(id, ticker) ==
    /\ tasks[id].pc = "fetch" /\ tasks[id].kind = "ticker"
    /\ LET t == [tasks[id] EXCEPT !.status = "200"]
           d == [ticker EXCEPT !.closeTime = id[1]]
       IN  tasks' = task_step(tasks, id,
              IF ~ticker.is_json THEN Failed(t, "exception")
              ELSE \* the verdict of validate_ticker_data
                   CASE validate_ticker_data(d).raises = "none" ->
                          [t EXCEPT !.ticker = d, !.is_valid = "true", !.pc = "save_ticker"]
                     [] validate_ticker_data(d).raises = "ValidationError" ->
                          [t EXCEPT !.ticker = d, !.is_valid = "ValidationError",
                                    !.error_message = validate_ticker_data(d).message,
                                    !.pc = "save_invalid"]
                     [] OTHER -> Failed([t EXCEPT !.ticker = d], "exception"))
    /\ UNCHANGED <<extVars, monVars, dbVars, running, sched, current_timeframe, initialization_done>>

\* await self.db.save_ticker_data(data, 'binance'): get_or_create_coin, then the tuple of
\* values (KeyError on a key that is missing), then the INSERT; every error is raised again
\* and caught at lines 177-179
TickerSave(id, db_ok) ==
    /\ tasks[id].pc = "save_ticker"
    /\ LET t == [tasks[id] EXCEPT !.sink = "save_ticker_data",
                                  !.stored = db_ok /\ tasks[id].ticker.fields = ticker_fields]
           coin == get_or_create_coin(coins, tasks[id].ticker.symbol)
       IN  /\ coins' = IF db_ok THEN coin.coins ELSE coins
           /\ price_ticks' = IF t.stored THEN save_ticker_data(price_ticks, coin.id, t.ticker)
                             ELSE price_ticks
           /\ tasks' = task_step(tasks, id,
                  IF t.stored THEN [t EXCEPT !.pc = "done", !.outcome = "saved"]
                  ELSE Failed(t, "store_error"))
    /\ UNCHANGED <<pool, service, monVars, dbVars, running, sched, current_timeframe,
                   initialization_done>>

\* except ValidationError: await self.db.save_invalid_data(symbol, 'ticker', None, data, ...)
TickerQuarantine(id, db_ok) ==
    /\ tasks[id].pc = "save_invalid" /\ tasks[id].kind = "ticker"
    /\ LET t == [tasks[id] EXCEPT !.sink = "save_invalid_data", !.stored = db_ok]
       IN  /\ invalid_data' = IF db_ok
                              THEN save_invalid_data(invalid_data, t.symbol, "ticker", "None",
                                                     t.ticker, t.error_message)
                              ELSE invalid_data
           /\ tasks' = task_step(tasks, id,
                  IF db_ok THEN [t EXCEPT !.pc = "done", !.outcome = "quarantined"]
                  ELSE Failed(t, "store_error"))
    /\ UNCHANGED <<extVars, monVars, ohlcv_data, running, sched, current_timeframe,
                   initialization_done>>

\* the awaits of continuous_collection at which a CancelledError can reach it
Awaits == {"test_connection", "sync", "gather", "sleep", "error_sleep"}

\* stop_collection without the cancel: only self.running = False
StopCollection_flag_only ==
    /\ running
    /\ sched.pc \in Awaits \cup {"returned"}
    /\ running' = FALSE
    /\ sched' = [sched EXCEPT !.stop = "awaiting"]
    /\ UNCHANGED <<extVars, monVars, dbVars, tasks, current_timeframe, initialization_done>>

\* stop_collection up to its await: self.running = False, self.collection_task.cancel()
StopCollection ==
    /\ running
    /\ sched.pc \in Awaits \cup {"returned"}
    /\ running' = FALSE
    /\ sched' = [sched EXCEPT !.stop = "awaiting", !.interrupted = sched.pc,
                              !.pc = IF sched.pc = "returned" THEN "returned" ELSE "cancelling"]
    /\ UNCHANGED <<extVars, monVars, dbVars, tasks, current_timeframe, initialization_done>>

\* a cancellation that reaches a task between the two appends of add_metrics
Cancelled_between_appends ==
    /\ sched.pc = "cancelling"
    /\ sched' = [sched EXCEPT !.pc = "stopped"]
    /\ tasks' = [id \in DOMAIN tasks |->
                    IF tasks[id].pc = "done" THEN tasks[id]
                    ELSE [tasks[id] EXCEPT !.pc = "done", !.outcome = "cancelled"]]
    /\ metrics_history' =
           [k \in Keys |->
               IF \E id \in DOMAIN tasks :
                      tasks[id].pc = "seed" /\ k = <<tasks[id].symbol, current_timeframe>>
               THEN LET id == CHOOSE id \in DOMAIN tasks :
                                 tasks[id].pc = "seed" /\ k = <<tasks[id].symbol, current_timeframe>>
                    IN  [metrics_history[k] EXCEPT !.volume = Append(@, tasks[id].data.volume)]
               ELSE metrics_history[k]]
    /\ UNCHANGED <<extVars, statistics, baseline_complete, verdict, call, dbVars, running,
                   current_timeframe, initialization_done>>

\* the CancelledError is raised at the await: outside the try it ends the task, inside it
\* is caught and the loop breaks (lines 334-335); gather cancels the tasks still running
Cancelled ==
    /\ sched.pc = "cancelling"
    /\ sched' = [sched EXCEPT !.pc = "stopped"]
    /\ tasks' = [id \in DOMAIN tasks |->
                    IF tasks[id].pc = "done" THEN tasks[id]
                    ELSE [tasks[id] EXCEPT !.pc = "done", !.outcome = "cancelled"]]
    /\ UNCHANGED <<extVars, monVars, dbVars, running, current_timeframe, initialization_done>>

\* await self.collection_task returns or raises CancelledError; stop_collection returns
StopReturns ==
    /\ sched.stop = "awaiting"
    /\ sched.pc \in {"stopped", "returned"}
    /\ sched' = [sched EXCEPT !.stop = "returned"]
    /\ UNCHANGED <<extVars, monVars, dbVars, running, tasks, current_timeframe, initialization_done>>

\* the handler that ends the loop on an exception
LoopBodyRaises_terminating ==
    /\ sched.pc = "sleep"
    /\ sched' = [sched EXCEPT !.pc = "returned"]
    /\ UNCHANGED <<extVars, monVars, dbVars, running, tasks, current_timeframe, initialization_done>>

\* lines 336-339: an exception in the loop body after gather is logged, then sleep 5
LoopBodyRaises ==
    /\ sched.pc = "sleep"
    /\ sched' = [sched EXCEPT !.pc = "error_sleep"]
    /\ UNCHANGED <<extVars, monVars, dbVars, running, tasks, current_timeframe, initialization_done>>

\* asyncio.sleep(5) of the handler returns; the loop goes on
ErrorSleepOver ==
    /\ sched.pc = "error_sleep"
    /\ sched' = [sched EXCEPT !.pc = "loop", !.collection_time = 0, !.sleep_time = 0]
    /\ UNCHANGED <<extVars, monVars, dbVars, running, tasks, current_timeframe, initialization_done>>

\* The ticker and one kline fetch of one symbol, failing or returning, with shutdown
LoopTasks == {<<"BTC", "ticker">>, <<"BTC", "1m">>}

LoopNext ==
    \/ StartCollection
    \/ \E ok \in BOOLEAN : TestConnection(ok)
    \/ Synchronise
    \/ Dispatch(LoopTasks)
    \/ Gather
    \/ Sleep
    \/ LoopBodyRaises
    \/ ErrorSleepOver
    \/ \E id \in DOMAIN tasks : TaskEnds(id)
    \/ \E id \in DOMAIN tasks, status \in Statuses \ {"200"} : TickerFailed(id, status)
    \/ \E id \in DOMAIN tasks, status \in Statuses \ {"200"} : KlineFailed(id, status)
    \/ \E id \in DOMAIN tasks : BackoffOver(id)
    \/ StopCollection
    \/ Cancelled
    \/ StopReturns

SpecLoop == Init /\ [][LoopNext]_vars

\* the event loop runs the callbacks that are ready: the cancellation is delivered to the
\* task, and stop_collection is resumed once the task it awaits is over
FairSpecLoop == SpecLoop /\ WF_vars(Cancelled) /\ WF_vars(StopReturns)

\* One kline fetch a cycle with every error a cycle can meet, in the task and in the loop
ErrorsTracked == {<<"BTC", "1d">>}

ErrorsNext ==
    \/ StartCollection
    \/ \E ok \in BOOLEAN : TestConnection(ok)
    \/ Synchronise
    \/ Dispatch(ErrorsTracked)
    \/ Gather
    \/ Sleep
    \/ LoopBodyRaises
    \/ ErrorSleepOver
    \/ \E id \in DOMAIN tasks, kline \in Klines : KlineAnswered(id, kline)
    \/ \E id \in DOMAIN tasks, status \in Statuses \ {"200"} : KlineFailed(id, status)
    \/ \E id \in DOMAIN tasks, db_ok \in BOOLEAN, hour \in Hours : KlineThresholds(id, db_ok, hour)
    \/ \E id \in DOMAIN tasks, db_ok \in BOOLEAN, hour \in Hours : KlineSeed(id, db_ok, hour)
    \/ \E id \in DOMAIN tasks, db_ok \in BOOLEAN : KlineSave(id, db_ok)
    \/ \E id \in DOMAIN tasks, db_ok \in BOOLEAN : KlineQuarantine(id, db_ok)
    \/ \E id \in DOMAIN tasks : BackoffOver(id)

SpecErrors == Init /\ [][ErrorsNext]_vars

\* the event loop runs what is ready, and every request and every call of the store
\* returns or fails: no step of the loop or of a task stays ready for ever
FairSpecErrors ==
    /\ SpecErrors
    /\ WF_vars(Dispatch(ErrorsTracked))
    /\ WF_vars(Gather)
    /\ WF_vars(Sleep \/ LoopBodyRaises)
    /\ WF_vars(ErrorSleepOver)
    /\ WF_vars(\E id \in DOMAIN tasks :
                   \/ \E kline \in Klines : KlineAnswered(id, kline)
                   \/ \E status \in Statuses \ {"200"} : KlineFailed(id, status))
    /\ WF_vars(\E id \in DOMAIN tasks, db_ok \in BOOLEAN, hour \in Hours : KlineThresholds(id, db_ok, hour))
    /\ WF_vars(\E id \in DOMAIN tasks, db_ok \in BOOLEAN, hour \in Hours : KlineSeed(id, db_ok, hour))
    /\ WF_vars(\E id \in DOMAIN tasks, db_ok \in BOOLEAN : KlineSave(id, db_ok))
    /\ WF_vars(\E id \in DOMAIN tasks, db_ok \in BOOLEAN : KlineQuarantine(id, db_ok))
    /\ WF_vars(\E id \in DOMAIN tasks : BackoffOver(id))

(***************************************************************************)
(* Properties of the collection pipeline                                   *)
(***************************************************************************)
Answered(id) == tasks[id].status = "200"
Done(id) == tasks[id].pc = "done"
Malformed(d) ==
    d.open <= 0 \/ d.high <= 0 \/ d.low <= 0 \/ d.close <= 0 \/ d.high < d.low \/ d.volume < 0
WellFormed(d) == d.parses /\ ~Malformed(d)
LowActivity == {"Low trade count", "Low volume"}
PriceRange == {"Suspicious price range", "All OHLC prices identical"}
StructuralReasons == {"All prices must be positive", "High price cannot be lower than low price",
                      "Volume cannot be negative"}
QuarantineRow(t) ==
    [symbol |-> t.symbol, data_type |-> "klines", timeframe |-> t.kind, raw_data |-> t.data,
     error_message |-> t.error_message]
\* the key under which validate_ohlcv_data records and judges the sample of task t
MonitorKey(t) == <<t.symbol, current_timeframe>>

\* C2: when the task of a kline fetch answered with status 200 has ended, its sample has
\* been handed to save_ohlcv_data or to save_invalid_data, and a row save_invalid_data
\* wrote carries the symbol, the timeframe, the raw payload and the reason.
C2_EverySampleReachesASink ==
    \A id \in DOMAIN tasks :
        (Done(id) /\ Answered(id)) =>
            \/ tasks[id].sink = "save_ohlcv_data"
            \/ /\ tasks[id].sink = "save_invalid_data"
               /\ tasks[id].stored => QuarantineRow(tasks[id]) \in invalid_data

\* C5 as stated: while the baseline of its key is incomplete, a well-formed sample is never
\* rejected for a low volume or a low trade count.
C5_LearningNeverRejectsLowActivity ==
    \A id \in DOMAIN tasks :
        (Done(id) /\ Answered(id) /\ WellFormed(tasks[id].data)
         /\ ~baseline_complete[MonitorKey(tasks[id])])
        => tasks[id].error_message \notin LowActivity

\* C5 amended: while the baseline of its key is incomplete (the sample itself recorded), a
\* well-formed sample is handed to save_ohlcv_data exactly when it passes the dynamic
\* thresholds and the price-range checks, and to save_invalid_data otherwise; the dynamic
\* thresholds lie between 0.3 and 1.5 times the base minimum of the timeframe the collector
\* holds as current, so a sample below 0.3 times the base is rejected for low activity and
\* a sample at or above 1.5 times the base is not.
C5_LearningAcceptsWhatPassesDynamicThresholds ==
    \A id \in DOMAIN tasks :
        LET t == tasks[id]
            base_trades == DEFAULT_MIN_TRADES[t.timeframe_used]
            base_volume_x10 == DEFAULT_MIN_VOLUME_x10[t.timeframe_used]
        IN  (Done(id) /\ Answered(id) /\ WellFormed(t.data) /\ ~baseline_complete[MonitorKey(t)])
            => /\ t.error_message \in {""} \cup LowActivity \cup PriceRange
               /\ t.sink = IF t.error_message = "" THEN "save_ohlcv_data" ELSE "save_invalid_data"
               /\ t.error_message = "" => (t.recorded /\ ~t.judged)
               /\ t.error_message # "" => ~t.recorded
               /\ 10 * t.data.num_trades < 3 * base_trades => t.error_message = "Low trade count"
               /\ (10 * t.data.num_trades >= 15 * base_trades
                   /\ 100 * t.data.volume < 3 * base_volume_x10) => t.error_message = "Low volume"
               /\ t.error_message = "Low trade count" => 10 * t.data.num_trades < 15 * base_trades
               /\ t.error_message = "Low volume" => 100 * t.data.volume < 15 * base_volume_x10

C5_Witness ==
    \E a, b \in DOMAIN tasks :
        /\ Done(a) /\ Answered(a) /\ WellFormed(tasks[a].data)
        /\ ~baseline_complete[MonitorKey(tasks[a])]
        /\ tasks[a].outcome = "saved" /\ tasks[a].stored
        /\ Done(b) /\ Answered(b) /\ WellFormed(tasks[b].data)
        /\ ~baseline_complete[MonitorKey(tasks[b])]
        /\ tasks[b].error_message = "Low trade count" /\ tasks[b].sink = "save_invalid_data"

\* C7: a sample with a price <= 0, with high < low or with volume < 0 is rejected in every
\* baseline state: it is never recorded in a window, never judged by the monitor, never
\* handed to save_ohlcv_data, and it is handed to save_invalid_data; the steps of its task
\* leave the monitor and the OHLCV table as they were.
C7_MalformedState ==
    \A id \in DOMAIN tasks :
        LET t == tasks[id]
        IN  (Answered(id) /\ t.data.parses /\ Malformed(t.data))
            => /\ t.pc \in {"save_invalid", "backoff", "done"}
               /\ ~t.recorded /\ ~t.judged
               /\ t.error_message \in StructuralReasons
               /\ t.sink # "save_ohlcv_data"
               /\ t.pc # "save_invalid"
                     => /\ t.sink = "save_invalid_data"
                        /\ t.outcome = IF t.stored THEN "quarantined" ELSE "store_error"
                        /\ t.stored => QuarantineRow(t) \in invalid_data

C7_MalformedStep ==
    \A id \in DOMAIN tasks :
        (/\ id \in DOMAIN tasks'
         /\ tasks'[id] # tasks[id]
         /\ tasks'[id].status = "200" /\ tasks'[id].data.parses /\ Malformed(tasks'[id].data))
        => UNCHANGED <<metrics_history, statistics, baseline_complete, ohlcv_data>>

C7_MalformedAlwaysQuarantined == []C7_MalformedState /\ [][C7_MalformedStep]_vars

C7_Witness ==
    \E id \in DOMAIN tasks :
        /\ Done(id) /\ Answered(id)
        /\ tasks[id].data.high = 10 /\ tasks[id].data.low = 15
        /\ \A k \in Keys : metrics_history[k].volume = <<>>
        /\ ohlcv_data = {}
        /\ tasks[id].error_message = "High price cannot be lower than low price"
        /\ tasks[id].sink = "save_invalid_data"
        /\ QuarantineRow(tasks[id]) \in invalid_data

\* the guard of each step of a task reads the position of that task alone
TaskSteps == {"fetch", "thresholds", "seed", "save_ohlcv", "save_invalid", "backoff"}

\* C8: within a cycle no outcome of a task cancels or blocks another task: a step that is
\* not the dispatch changes the entry of one task at most and removes none, no task ends
\* cancelled, and every task that has not ended stands at a step it can take whatever the
\* state of the others.
C8_NoneBlocked ==
    \A id \in DOMAIN tasks :
        /\ tasks[id].outcome # "cancelled"
        /\ ~Done(id) => (tasks[id].pc \in TaskSteps /\ sched.pc = "gather")

C8_OneTaskPerStep ==
    sched'.cycle = sched.cycle =>
        /\ DOMAIN tasks' = DOMAIN tasks
        /\ Cardinality({id \in DOMAIN tasks : tasks'[id] # tasks[id]}) <= 1

C8_TasksIndependent == []C8_NoneBlocked /\ [][C8_OneTaskPerStep]_vars

C8_Witness ==
    \E a, b \in DOMAIN tasks :
        /\ tasks[a].symbol # tasks[b].symbol /\ tasks[a].cycle = tasks[b].cycle
        /\ tasks[a].status = "429" /\ tasks[a].pc = "backoff" /\ tasks[a].backoff = 60
        /\ Done(b) /\ tasks[b].outcome = "saved" /\ tasks[b].recorded
        /\ \E r \in ohlcv_data : r.symbol = tasks[b].symbol /\ r.timeframe = tasks[b].kind

\* C9: gather is a full barrier: every task that has not ended belongs to the cycle the
\* loop is waiting for, none is left when the loop sleeps or dispatches, and the live tasks
\* never exceed |symbols| x (1 + |timeframes|).
C9_FullBarrier ==
    /\ \A id \in Live : id[1] = sched.cycle /\ sched.pc = "gather"
    /\ Cardinality(Live) <= Len(symbols) * (1 + Len(timeframes_order))

C9_Witness ==
    /\ sched.cycle = 2 /\ sched.pc = "gather"
    /\ \E id \in DOMAIN tasks :
           /\ tasks[id].pc = "backoff" /\ tasks[id].backoff = 60
           /\ \A o \in DOMAIN tasks \ {id} : Done(o)
    /\ Cardinality(DOMAIN tasks) = Len(symbols) * (1 + Len(timeframes_order))

\* C10: every dispatch creates exactly one ticker task per symbol and one kline task per
\* (symbol, timeframe), |symbols| x (1 + 6) tasks (14 for 2 symbols), in every cycle.
C10_FullTaskSetEveryCycle ==
    sched.cycle >= 1 =>
        /\ sched.created = Len(symbols) * (1 + 6)
        /\ Len(symbols) = 2 => sched.created = 14
        /\ DOMAIN tasks = {sched.cycle} \X Symbols \X ({"ticker"} \cup timeframes)

C10_Witness ==
    /\ sched.cycle = 2 /\ sched.created = 14
    /\ Cardinality({id \in DOMAIN tasks : id[1] = 2 /\ id[3] = "ticker"}) = 2
    /\ Cardinality({id \in DOMAIN tasks : id[1] = 2 /\ id[3] # "ticker"}) = 12
    /\ \A id \in DOMAIN tasks : tasks[id].pc = "fetch"

\* C11: after gather the loop sleeps max(0, 60 - elapsed) seconds: 48 after a cycle of 12,
\* nothing once the cycle took the period or more, never a negative time
C11_SleepIsRestOfPeriod ==
    sched.pc = "sleep" =>
        /\ sched.sleep_time >= 0
        /\ IF sched.collection_time >= 60 THEN sched.sleep_time = 0
           ELSE sched.sleep_time + sched.collection_time = 60
        /\ sched.collection_time = 12 => sched.sleep_time = 48

C11_Witness == sched.pc = "sleep" /\ sched.collection_time = 75 /\ sched.sleep_time = 0

\* C12: for one elapsed time the loop can sleep more than one duration
C12_SleepHasJitter ==
    sched.pc = "sleep" => \E s \in sleep_times(sched.collection_time) : s # sched.sleep_time

\* C13: a fetch answered 429 is not issued again in its cycle, and requests are issued
\* again only in a later cycle, 60 seconds or more after the answer
Limited(tk) == {id \in DOMAIN tk : tk[id].status = "429"}

C13_CooledDown ==
    /\ \A id \in Limited(tasks) :
           /\ tasks[id].pc \in {"backoff", "done"}
           /\ tasks[id].pc = "backoff" => sched.pc \in {"gather", "cancelling"}
           /\ sched.pc = "sleep" => sched.collection_time >= 60

C13_NoRetryInCycle ==
    \A id \in Limited(tasks) : id \in DOMAIN tasks' => tasks'[id].pc # "fetch"

C13_NextRequestInLaterCycle ==
    \A new \in DOMAIN tasks' \ DOMAIN tasks :
        \A id \in Limited(tasks) : tasks[id].pc = "done" /\ tasks[id].cycle < tasks'[new].cycle

C13_RateLimitedWaitsForLaterCycle ==
    []C13_CooledDown /\ [][C13_NoRetryInCycle /\ C13_NextRequestInLaterCycle]_vars

C13_Witness ==
    /\ sched.pc = "sleep"
    /\ \E a, b \in Limited(tasks) : tasks[a].kind = "ticker" /\ tasks[b].kind = "1m"

\* C14: test_connection runs once, before the synchronisation and the first cycle; when it
\* fails, no task is ever created and the monitor and the tables stay as they were
C14_TestedOnceFirst ==
    /\ sched.tests <= 1
    /\ sched.pc \in {"not_started", "test_connection"} <=> sched.tests = 0
    /\ sched.tests = 0 => sched.cycle = 0 /\ tasks = <<>>

C14_FailedTestEndsCollection ==
    sched.connected = "no" =>
        /\ sched.pc = "returned" /\ sched.cycle = 0 /\ tasks = <<>>
        /\ MonInit
        /\ ohlcv_data = {} /\ invalid_data = {}
        /\ \A k \in Keys : ~initialization_done[k]

C14_ConnectionTestedOnceOrReturn == C14_TestedOnceFirst /\ C14_FailedTestEndsCollection

C14_Witness == sched.connected = "no" /\ sched.pc = "returned" /\ sched.tests = 1
\* C15: once stop_collection is called, wherever the loop stands, the collection task
\* leaves its await at once, starts no further cycle, ends, and stop_collection returns
C15_NoLongerWaiting ==
    sched.stop # "none" =>
        /\ ~running
        /\ sched.pc \in {"cancelling", "stopped", "returned"}
        /\ sched.pc = "stopped" => \A id \in DOMAIN tasks : tasks[id].pc = "done"

C15_NoFurtherDispatch ==
    sched.stop # "none" =>
        /\ sched'.cycle = sched.cycle
        /\ DOMAIN tasks' = DOMAIN tasks
        /\ sched.pc \in {"stopped", "returned"} => sched'.pc = sched.pc /\ tasks' = tasks

C15_StopEndsCollection ==
    /\ []C15_NoLongerWaiting
    /\ [][C15_NoFurtherDispatch]_vars
    /\ (sched.stop = "awaiting") ~> (sched.stop = "returned" /\ sched.pc \in {"stopped", "returned"})

C15_Witness ==
    /\ sched.stop = "returned" /\ sched.pc = "stopped" /\ sched.interrupted = "gather"
    /\ \E id \in DOMAIN tasks :
           tasks[id].status = "429" /\ tasks[id].backoff = 60 /\ tasks[id].outcome = "cancelled"
\* C16: whatever fails inside a cycle (a status other than 200, a failing request, a
\* rejected sample, a failing save, an exception in the loop body), the loop does not
\* end: every cycle is followed by the next one
C16_LoopNotEnded == sched.connected = "yes" => sched.pc \notin {"returned", "stopped", "cancelling"}

C16_EveryCycleFollowed ==
    \A n \in 1..(MaxCycles - 1) : (sched.cycle = n) ~> (sched.cycle = n + 1)

C16_ErrorsNeverEndTheLoop == []C16_LoopNotEnded /\ C16_EveryCycleFollowed

C16_Witness ==
    /\ sched.cycle = 2 /\ sched.pc = "error_sleep"
    /\ ohlcv_data = {}
    /\ \E id \in DOMAIN tasks :
           /\ tasks[id].cycle = 2 /\ tasks[id].sink = "save_ohlcv_data"
           /\ ~tasks[id].stored /\ tasks[id].outcome = "store_error"
\* C17: historical samples are inserted into the window of a key only while that window
\* is empty
C17_SeedingInserts(k) ==
    ~initialization_done[k] /\ initialization_done'[k] /\ ~baseline_complete[k]

C17_SeededOnlyWhileEmpty ==
    [][\A k \in Keys : C17_SeedingInserts(k) => metrics_history[k].volume = <<>>]_vars
\* C18: initialize_from_db returns true, and the key is marked initialised, only when a
\* historical sample was inserted
C18_TrueOnlyWhenInserted ==
    [][\A k \in Keys : ~initialization_done[k] /\ initialization_done'[k]
                           => metrics_history'[k] # metrics_history[k]]_vars

\* C19: seeding inserts the batch oldest first: an empty window seeded with a batch holds
\* the newest samples of the batch, the oldest of them first
oldest_first(batch) ==
    [i \in 1..Len(batch) |->
        CHOOSE r \in {batch[j] : j \in 1..Len(batch)} :
            Cardinality({j \in 1..Len(batch) : batch[j].timestamp < r.timestamp}) = i - 1]

C19_SeedStep(k) ==
    /\ call'.op = "initialize_from_db" /\ call'.key = k /\ call'.historical_data # <<>>
    /\ metrics_history[k].volume = <<>>

C19_SeededOldestFirst ==
    [][\A k \in MonKeys :
           C19_SeedStep(k) =>
               metrics_history'[k].volume
                   = last_n([i \in 1..call'.n |-> oldest_first(call'.historical_data)[i].volume],
                            min_data_points)]_vars

\* C20: every add_metrics appends the point as the newest of the window and evicts the
\* oldest beyond the capacity, also once the window holds min_data_points points
C20_AppendedAsNewest ==
    [][\A k \in MonKeys :
           call'.op = "add_metrics" /\ call'.key = k =>
               /\ metrics_history'[k].volume
                      = last_n(Append(metrics_history[k].volume, call'.data.volume), min_data_points)
               /\ metrics_history'[k].trades
                      = last_n(Append(metrics_history[k].trades, call'.data.trades), min_data_points)]_vars
\* C21: saving a kline whose (symbol, timestamp, timeframe) is stored already, with the
\* same or with other values, leaves one row of that key, holding the values saved last;
\* no key ever has two rows
SameKey(r, q) == r.symbol = q.symbol /\ r.timeframe = q.timeframe /\ r.timestamp = q.timestamp

RowOf(t) ==
    [symbol |-> t.symbol, timeframe |-> t.kind, timestamp |-> t.data.timestamp,
     open |-> t.data.open, high |-> t.data.high, low |-> t.data.low, close |-> t.data.close,
     volume |-> t.data.volume, num_trades |-> t.data.num_trades]

C21_OneRowPerKey == \A r, q \in ohlcv_data : SameKey(r, q) => r = q

C21_SavedNow(id) ==
    /\ id \in DOMAIN tasks' /\ tasks[id].pc = "save_ohlcv"
    /\ tasks'[id].pc = "done" /\ tasks'[id].stored

C21_SaveStep ==
    \A id \in DOMAIN tasks :
        C21_SavedNow(id) =>
            /\ RowOf(tasks[id]) \in ohlcv_data'
            /\ {r \in ohlcv_data' : ~SameKey(r, RowOf(tasks[id]))}
                   = {r \in ohlcv_data : ~SameKey(r, RowOf(tasks[id]))}
            /\ RowOf(tasks[id]) \in ohlcv_data => ohlcv_data' = ohlcv_data
            /\ Cardinality(ohlcv_data')
                   = Cardinality(ohlcv_data)
                     + (IF \E r \in ohlcv_data : SameKey(r, RowOf(tasks[id])) THEN 0 ELSE 1)

C21_SaveIsUpsert == []C21_OneRowPerKey /\ [][C21_SaveStep]_vars

C21_Witness ==
    \E id \in DOMAIN tasks :
        /\ tasks[id].outcome = "saved" /\ tasks[id].existing = "differs"
        /\ {r \in ohlcv_data : SameKey(r, RowOf(tasks[id]))} = {RowOf(tasks[id])}
\* C22: every verdict of validate_data carries in its metrics the raw volume, the raw
\* trade count and the baseline_complete flag, also before any sample is recorded
C22_MetricsAlwaysCarryRawValues ==
    verdict.called =>
        /\ {"volume", "trades", "baseline_complete"} \subseteq verdict.metrics.keys
        /\ verdict.metrics.volume = verdict.data.volume
        /\ verdict.metrics.trades = verdict.data.trades
        /\ verdict.metrics.baseline_complete = verdict.thresholds.baseline_complete

\* C23: whatever the interleaving of the tasks of a cycle, a kline fetched for a timeframe
\* is checked, recorded and validated under that timeframe
C23_ValidatedUnderOwnTimeframe ==
    \A id \in DOMAIN tasks :
        tasks[id].kind # "ticker" /\ tasks[id].status = "200"
            => tasks[id].timeframe_used = tasks[id].kind

\* C24: the metrics of every kline that validate_data judged or reported on are
\* persisted, with the baseline complete or not, the verdict valid or not
C24_MetricsPersistedWhateverTheVerdict ==
    \A id \in DOMAIN tasks : tasks[id].recorded => tasks[id].metrics_saved
\* C25: save_ohlcv_data is called for a kline only after validate_ohlcv_data returned true
\* for it, save_invalid_data only after it raised ValidationError for it, never both
C25_Gated ==
    \A id \in DOMAIN tasks :
        /\ tasks[id].pc = "save_ohlcv" \/ tasks[id].sink = "save_ohlcv_data"
               => tasks[id].is_valid = "true" /\ tasks[id].error_message = ""
        /\ tasks[id].pc = "save_invalid" \/ tasks[id].sink = "save_invalid_data"
               => tasks[id].is_valid = "ValidationError" /\ tasks[id].error_message # ""

C25_OneSinkOnce ==
    \A id \in DOMAIN tasks :
        id \in DOMAIN tasks' /\ tasks'[id].sink # tasks[id].sink => tasks[id].sink = "none"

C25_VerdictGatesPersistence == []C25_Gated /\ [][C25_OneSinkOnce]_vars

C25_Witness ==
    \E a, b \in DOMAIN tasks :
        /\ tasks[a].sink = "save_ohlcv_data" /\ tasks[a].stored
        /\ tasks[b].sink = "save_invalid_data" /\ tasks[b].stored
\* C26 (as claimed): get_validation_thresholds returns a dict with baseline_complete =
\* false and no thresholds whenever the window is shorter than min_data_points, with
\* statistics for the key or without, and baseline_complete = true with both thresholds
\* exactly when the window holds min_data_points samples
C26_Short == Len(Window(verdict.key).volume) < min_data_points

C26_IncompleteDictWheneverShort ==
    verdict.called =>
        /\ C26_Short => /\ ~verdict.thresholds.is_none
                        /\ ~verdict.thresholds.baseline_complete
                        /\ ~verdict.thresholds.has_values
        /\ ~C26_Short <=> verdict.thresholds.baseline_complete /\ verdict.thresholds.has_values

\* C26 (amended): as above, except that for a key without statistics, one nothing was
\* recorded for, get_validation_thresholds returns None in place of the dict
C26_IncompleteWheneverShort ==
    verdict.called =>
        /\ C26_Short => /\ verdict.thresholds.is_none <=> ~statistics[verdict.key].present
                        /\ verdict.thresholds.is_none <=> Window(verdict.key).volume = <<>>
                        /\ ~verdict.thresholds.baseline_complete
                        /\ ~verdict.thresholds.has_values
        /\ ~C26_Short <=> verdict.thresholds.baseline_complete /\ verdict.thresholds.has_values
        /\ ~C26_Short => ~verdict.thresholds.is_none

C26_Witness ==
    /\ verdict.called
    /\ statistics[verdict.key].present
    /\ Len(Window(verdict.key).volume) = min_data_points - 1
    /\ ~verdict.thresholds.is_none /\ ~verdict.thresholds.baseline_complete

\* C27: get_validation_thresholds and validate_data change no window, no statistics and
\* no baseline_complete flag, and the same input in the same stored state at the same
\* hour gets the same verdict again
C27_NothingWritten ==
    call'.op = "validate_data" /\ verdict'.called /\ ~verdict.called
        => /\ metrics_history' = metrics_history
           /\ statistics' = statistics
           /\ baseline_complete' = baseline_complete

C27_SameVerdictAgain ==
    verdict.called =>
        /\ verdict.thresholds
               = get_validation_thresholds(Window(verdict.key), statistics[verdict.key], verdict.hour)
        /\ [is_valid |-> verdict.is_valid, warnings |-> verdict.warnings, metrics |-> verdict.metrics]
               = validate_data(Window(verdict.key), statistics[verdict.key], verdict.data, verdict.hour)

C28_LowActivity == 0 <= verdict.hour /\ verdict.hour < 8

C28_ThresholdsArePercentiles ==
    verdict.called /\ Len(Window(verdict.key).volume) >= min_data_points =>
        \E volume_x100 \in {percentile_x100(Window(verdict.key).volume, 1)} :
        \E trades_x100 \in {percentile_x100(Window(verdict.key).trades, 1)} :
        \E trades \in 0..(trades_x100 \div 100) :
            /\ 100 * trades <= trades_x100 /\ trades_x100 < 100 * (trades + 1)
            /\ verdict.thresholds.has_values
            /\ IF C28_LowActivity
               THEN /\ verdict.thresholds.volume_x200 = volume_x100
                    /\ 2 * verdict.thresholds.trades <= trades
                    /\ trades < 2 * (verdict.thresholds.trades + 1)
               ELSE /\ verdict.thresholds.volume_x200 = 2 * volume_x100
                    /\ verdict.thresholds.trades = trades

\* the last low-activity hour and an odd trade count to halve
C28_Witness ==
    /\ verdict.called /\ verdict.hour = 7
    /\ Window(verdict.key).trades = <<15, 15, 15>>
    /\ verdict.thresholds.trades = 7
    /\ verdict.thresholds.volume_x200 = 2000

\* C29: the statistics stored for a key are those of the key's current window, and a
\* key with a non-empty window has statistics
C29_StatisticsOfCurrentWindow ==
    \A k \in Keys :
        /\ Window(k).volume # <<>> => statistics[k].present
        /\ statistics[k].present =>
               /\ Window(k).volume # <<>> /\ Window(k).trades # <<>>
               /\ statistics[k].volume = stat_of(Window(k).volume)
               /\ statistics[k].trades = stat_of(Window(k).trades)

\* a window still short of the baseline, with two different samples in it
C29_Witness ==
    \E k \in Keys :
        /\ Window(k) = [volume |-> <<10, 20>>, trades |-> <<10, 15>>]
        /\ statistics[k].present
        /\ statistics[k].volume.mean_num = 30 /\ statistics[k].trades.mean_num = 25
        /\ ~baseline_complete[k]

(***************************************************************************)
(* Cancellation during validation: the loop of SpecErrors, with           *)
(* stop_collection called at any await of the loop, whatever await the     *)
(* collection task of the cycle is suspended at                            *)
(***************************************************************************)
CancelNext ==
    \/ StartCollection
    \/ \E ok \in BOOLEAN : TestConnection(ok)
    \/ Synchronise
    \/ Dispatch(ErrorsTracked)
    \/ Gather
    \/ Sleep
    \/ LoopBodyRaises
    \/ ErrorSleepOver
    \/ \E id \in DOMAIN tasks, kline \in Klines : KlineAnswered(id, kline)
    \/ \E id \in DOMAIN tasks, status \in Statuses \ {"200"} : KlineFailed(id, status)
    \/ \E id \in DOMAIN tasks, db_ok \in BOOLEAN, hour \in Hours : KlineThresholds(id, db_ok, hour)
    \/ \E id \in DOMAIN tasks, db_ok \in BOOLEAN, hour \in Hours : KlineSeed(id, db_ok, hour)
    \/ \E id \in DOMAIN tasks, db_ok \in BOOLEAN : KlineSave(id, db_ok)
    \/ \E id \in DOMAIN tasks, db_ok \in BOOLEAN : KlineQuarantine(id, db_ok)
    \/ \E id \in DOMAIN tasks : BackoffOver(id)
    \/ StopCollection
    \/ Cancelled
    \/ StopReturns

SpecCancel == Init /\ [][CancelNext]_vars

\* C30: in every state, a cancellation at any await included, the volume sequence and
\* the trade count sequence of each window have the same length and their i-th elements
\* come from the same sample
C30_Samples == {<<kline.volume, kline.num_trades>> : kline \in Klines}

C30_WindowsPaired ==
    \A k \in Keys :
        /\ Len(Window(k).volume) = Len(Window(k).trades)
        /\ \A i \in 1..Len(Window(k).volume) :
               <<Window(k).volume[i], Window(k).trades[i]>> \in C30_Samples

\* a task cancelled after its sample was recorded, in a window of two different samples
C30_Witness ==
    /\ sched.pc = "stopped"
    /\ \E id \in DOMAIN tasks :
           /\ tasks[id].outcome = "cancelled" /\ tasks[id].recorded
           /\ Window(<<tasks[id].symbol, tasks[id].kind>>).volume = <<300, 100>>
           /\ Window(<<tasks[id].symbol, tasks[id].kind>>).trades = <<6000, 2000>>

\* C31 (as claimed): a kline fetched for 5m, 15m, 1h, 4h or 1d whose price range is at
\* most 0.01% of low, or whose four prices are equal, is rejected with ValidationError,
\* and a kline fetched for 1m is never rejected by these two checks
C31_RangeErrors == {"Suspicious price range", "All OHLC prices identical"}

C31_NarrowOrFlat(d) ==
    \/ (d.high - d.low) * 10000 <= d.low
    \/ (d.open = d.high /\ d.high = d.low /\ d.low = d.close)

C31_RangeChecksFollowFetchedTimeframe ==
    \A id \in DOMAIN tasks :
        tasks[id].kind # "ticker" /\ tasks[id].status = "200"
                                  /\ tasks[id].pc \notin {"fetch", "thresholds"} =>
            /\ tasks[id].kind = "1m" => tasks[id].error_message \notin C31_RangeErrors
            /\ tasks[id].kind # "1m" /\ structural_error(tasks[id].data) = ""
                                      /\ C31_NarrowOrFlat(tasks[id].data)
                   => tasks[id].is_valid = "ValidationError"

(***************************************************************************)
(* The ticker of one symbol: the loop with the ticker fetch alone, every   *)
(* body the exchange may answer with                                       *)
(***************************************************************************)
TickerTracked == {<<"BTC", "ticker">>}

TickerNext ==
    \/ StartCollection
    \/ \E ok \in BOOLEAN : TestConnection(ok)
    \/ Synchronise
    \/ Dispatch(TickerTracked)
    \/ Gather
    \/ Sleep
    \/ \E id \in DOMAIN tasks, ticker \in Tickers : TickerAnswered(id, ticker)
    \/ \E id \in DOMAIN tasks, status \in Statuses \ {"200"} : TickerFailed(id, status)
    \/ \E id \in DOMAIN tasks, db_ok \in BOOLEAN : TickerSave(id, db_ok)
    \/ \E id \in DOMAIN tasks, db_ok \in BOOLEAN : TickerQuarantine(id, db_ok)
    \/ \E id \in DOMAIN tasks : BackoffOver(id)

SpecTicker == Init /\ [][TickerNext]_vars

\* C32 (as claimed): a ticker fetch answered with status 200 reaches exactly one sink:
\* save_ticker_data when the required fields are present, lastPrice > 0, volume >= 0 and
\* the symbol ends in USDT, save_invalid_data with data_type 'ticker' otherwise
C32_Acceptable(d) ==
    /\ {"symbol", "lastPrice", "volume", "quoteVolume"} \subseteq d.fields
    /\ ~py_float(d.lastPrice).raises /\ ~py_float(d.lastPrice).nan
    /\ py_float(d.lastPrice).value > 0
    /\ ~py_float(d.volume).raises /\ ~py_float(d.volume).nan
    /\ py_float(d.volume).value >= 0
    /\ ends_with_USDT(d.symbol)

C32_ExactlyOneTickerSink ==
    \A id \in DOMAIN tasks :
        tasks[id].kind = "ticker" /\ tasks[id].status = "200" /\ tasks[id].pc = "done" =>
            tasks[id].sink = IF C32_Acceptable(tasks[id].ticker) THEN "save_ticker_data"
                             ELSE "save_invalid_data"

\* C33: for every key, baseline_complete is true exactly when the window holds at least
\* min_data_points samples; once true it stays true, and no window ever gets shorter
C33_CompleteIffFull ==
    \A k \in Keys : baseline_complete[k] <=> Len(Window(k).volume) >= min_data_points

C33_Monotone ==
    \A k \in Keys :
        /\ baseline_complete[k] => baseline_complete'[k]
        /\ Len(metrics_history'[k].volume) >= Len(Window(k).volume)
        /\ Len(metrics_history'[k].trades) >= Len(Window(k).trades)

C33_BaselineCompletesOnce == []C33_CompleteIffFull /\ [][C33_Monotone]_vars

\* add_metrics called on a complete baseline with a sample the window does not take
C33_Witness ==
    /\ call.op = "add_metrics" /\ baseline_complete[call.key]
    /\ call.data.volume = 20
    /\ Window(call.key).volume = <<10, 10, 10>>

(***************************************************************************)
(* The thread pool: the db_operation callables of the kline saves of one   *)
(* cycle, handed to run_in_executor by tasks that run concurrently.  They  *)
(* share self.conn, which is in autocommit mode: every statement is one    *)
(* step, and the statements of different threads interleave.  XRP is a     *)
(* symbol added to the configured list; initialize_tracked_coins creates   *)
(* the rows of its own four symbols only.                                  *)
(***************************************************************************)
PoolSaves == {"BTC", "XRP"} \X {"1m", "5m"}

\* loop.run_in_executor(None, db_operation) of save_ohlcv_data(symbol, timeframe, data)
PoolSubmit(th) ==
    /\ th \notin DOMAIN pool
    /\ pool' = [o \in DOMAIN pool \cup {th} |->
                   IF o = th THEN [symbol |-> th[1], timeframe |-> th[2], pc |-> "select",
                                   coin_id |-> 0, error |-> ""]
                   ELSE pool[o]]
    /\ UNCHANGED <<monVars, colVars, dbVars, price_ticks, coins, service>>

\* get_or_create_coin, lines 79-85: SELECT id FROM coins WHERE symbol = %s, and the return
\* when a row is found
CoinSelect(th) ==
    /\ pool[th].pc = "select"
    /\ pool' = [pool EXCEPT ![th] =
                   IF \E c \in coins : c.symbol = clean_symbol(pool[th].symbol)
                   THEN [@ EXCEPT !.pc = "write",
                                  !.coin_id = (CHOOSE c \in coins :
                                                  c.symbol = clean_symbol(pool[th].symbol)).id]
                   ELSE [@ EXCEPT !.pc = "insert"]]
    /\ UNCHANGED <<monVars, colVars, dbVars, price_ticks, coins, service>>

\* get_or_create_coin, lines 87-96: INSERT INTO coins (symbol, name) ... RETURNING id; the
\* symbol is unique in coins (it is the conflict target of line 255), so the INSERT raises
\* when the row is there by now, and save_ohlcv_data raises in its turn
CoinInsert(th) ==
    /\ pool[th].pc = "insert"
    /\ IF \E c \in coins : c.symbol = clean_symbol(pool[th].symbol)
       THEN /\ pool' = [pool EXCEPT ![th] = [@ EXCEPT !.pc = "failed",
                                                      !.error = "UniqueViolation"]]
            /\ UNCHANGED coins
       ELSE /\ coins' = get_or_create_coin(coins, pool[th].symbol).coins
            /\ pool' = [pool EXCEPT ![th] =
                           [@ EXCEPT !.pc = "write",
                                     !.coin_id = get_or_create_coin(coins, pool[th].symbol).id]]
    /\ UNCHANGED <<monVars, colVars, dbVars, price_ticks, service>>

\* save_ohlcv_data, lines 278-324: the SELECT of the existing row and the upsert
PoolWrite(th) ==
    /\ pool[th].pc = "write"
    /\ ohlcv_data' = save_ohlcv_data(ohlcv_data, pool[th].symbol, pool[th].timeframe,
                                     [KBig EXCEPT !.timestamp = 1])
    /\ pool' = [pool EXCEPT ![th] = [@ EXCEPT !.pc = "done"]]
    /\ UNCHANGED <<monVars, colVars, invalid_data, price_ticks, coins, service>>

PoolNext ==
    \/ \E th \in PoolSaves : PoolSubmit(th)
    \/ \E th \in DOMAIN pool : CoinSelect(th)
    \/ \E th \in DOMAIN pool : CoinInsert(th)
    \/ \E th \in DOMAIN pool : PoolWrite(th)

SpecPool == Init /\ [][PoolNext]_vars

\* C34 (as claimed): the concurrent saves of a symbol that has no coins row all get the
\* same coin id, none of them fails, and exactly one row is created
C34_OneCoinAndNoFailure ==
    /\ \A th \in DOMAIN pool : pool[th].pc # "failed"
    /\ \A a, b \in DOMAIN pool :
           pool[a].symbol = pool[b].symbol /\ pool[a].coin_id # 0 /\ pool[b].coin_id # 0
               => pool[a].coin_id = pool[b].coin_id
    /\ \A c, d \in coins : c.symbol = d.symbol => c = d

(***************************************************************************)
(* CryptoDataService (src/main.py): start() as the main task of            *)
(* asyncio.run, the signal handlers, shutdown().  service.pc is where the  *)
(* main task stands; service.shutdowns are the shutdown() tasks the signal *)
(* handlers created, and the call in the finally block of start() once it  *)
(* found self.running set.  The collection loop runs the ticker of one     *)
(* symbol, a task body taken as one step.                                  *)
(***************************************************************************)
MaxSignals == 2
ServiceTracked == {<<"BTC", "ticker">>}

Finished(pc) == pc \in {"done", "cancelled"}
CollectionOver == sched.pc \in {"stopped", "returned"}

\* start(), lines 25-48, with start_collection (lines 126-130): up to the first
\* await asyncio.sleep(1) of the main task
ServiceStart ==
    /\ service.pc = "not_started"
    /\ service' = [service EXCEPT !.running = TRUE, !.pc = "sleeping"]
    /\ running' = TRUE
    /\ sched' = [sched EXCEPT !.pc = "test_connection"]
    /\ UNCHANGED <<monVars, dbVars, price_ticks, coins, pool, tasks, current_timeframe,
                   initialization_done>>

\* SIGTERM or SIGINT while the service runs: handle_shutdown creates a task of shutdown()
Signal ==
    /\ service.pc = "sleeping"
    /\ service.signals < MaxSignals
    /\ service' = [service EXCEPT
                      !.signals = @ + 1,
                      !.shutdowns = Append(@, [by |-> "signal", pc |-> "created",
                                               cancel |-> FALSE, effective |-> FALSE])]
    /\ UNCHANGED <<monVars, colVars, dbVars, price_ticks, coins, pool>>

\* stop_collection up to its await: self.running = False, self.collection_task.cancel()
stop_collection(s) ==
    [s EXCEPT !.stop = "awaiting", !.interrupted = s.pc,
              !.pc = IF s.pc \in Awaits THEN "cancelling" ELSE s.pc]

\* a shutdown() that does not look at self.running
ShutdownRun_unguarded(i) ==
    /\ i \in DOMAIN service.shutdowns /\ service.shutdowns[i].pc = "created"
    /\ \A j \in 1..(i - 1) : service.shutdowns[j].pc # "created"
    /\ sched.pc \in Awaits \cup {"cancelling", "stopped", "returned"}
    /\ service' = [service EXCEPT
                      !.running = FALSE,
                      !.shutdown_calls = @ + 1,
                      !.stop_collection_calls = @ + 1,
                      !.shutdowns[i] = [@ EXCEPT !.pc = "stopping", !.effective = TRUE]]
    /\ running' = FALSE
    /\ sched' = stop_collection(sched)
    /\ UNCHANGED <<monVars, dbVars, price_ticks, coins, pool, tasks, current_timeframe,
                   initialization_done>>

\* a shutdown() task runs, the tasks created first running first: lines 65-71 up to the
\* await inside stop_collection, or the return when self.running is false
ShutdownRun(i) ==
    /\ i \in DOMAIN service.shutdowns /\ service.shutdowns[i].pc = "created"
    /\ \A j \in 1..(i - 1) : service.shutdowns[j].pc # "created"
    /\ IF service.running
       THEN /\ sched.pc \in Awaits \cup {"cancelling", "stopped", "returned"}
            /\ service' = [service EXCEPT
                              !.running = FALSE,
                              !.shutdown_calls = @ + 1,
                              !.stop_collection_calls = @ + 1,
                              !.shutdowns[i] = [@ EXCEPT !.pc = "stopping", !.effective = TRUE]]
            /\ running' = FALSE
            /\ sched' = stop_collection(sched)
       ELSE /\ service' = [service EXCEPT !.shutdown_calls = @ + 1,
                                          !.shutdowns[i] = [@ EXCEPT !.pc = "done"]]
            /\ UNCHANGED <<running, sched>>
    /\ UNCHANGED <<monVars, dbVars, price_ticks, coins, pool, tasks, current_timeframe,
                   initialization_done>>

\* lines 74-79 for the call i: every other task that is not done is cancelled (a task that
\* has not started never runs its body), then gathered when there is any
swept(i) ==
    [service EXCEPT
        !.sweeps = @ + 1,
        !.cancel = (service.pc = "sleeping"),
        !.shutdowns = [j \in DOMAIN service.shutdowns |->
            IF j = i
            THEN [service.shutdowns[j] EXCEPT
                    !.cancel = FALSE,
                    !.pc = IF \/ service.pc = "sleeping"
                              \/ ~CollectionOver
                              \/ \E o \in DOMAIN service.shutdowns \ {i} :
                                     ~Finished(service.shutdowns[o].pc)
                           THEN "sweeping" ELSE "done"]
            ELSE IF service.shutdowns[j].pc = "created"
            THEN [service.shutdowns[j] EXCEPT !.pc = "cancelled"]
            ELSE service.shutdowns[j]]]

\* await self.collection_task returns in stop_collection (the task is over, cancelled or
\* returned); stop_collection returns and shutdown goes on to line 74
ShutdownSweep(i) ==
    /\ i \in DOMAIN service.shutdowns /\ service.shutdowns[i].pc = "stopping"
    /\ ~service.shutdowns[i].cancel
    /\ CollectionOver
    /\ sched' = [sched EXCEPT !.stop = "returned"]
    /\ service' = swept(i)
    /\ UNCHANGED <<monVars, dbVars, price_ticks, coins, pool, running, tasks, current_timeframe,
                   initialization_done>>

\* the shutdown() task is cancelled while it awaits in stop_collection: the CancelledError
\* is caught at lines 139-140 like that of the collection task, and shutdown goes on
ShutdownStopCancelled(i) ==
    /\ i \in DOMAIN service.shutdowns /\ service.shutdowns[i].pc = "stopping"
    /\ service.shutdowns[i].cancel
    /\ sched' = [sched EXCEPT !.stop = "returned"]
    /\ service' = swept(i)
    /\ UNCHANGED <<monVars, dbVars, price_ticks, coins, pool, running, tasks, current_timeframe,
                   initialization_done>>

\* the gather of line 79 returns: every task it was given is over
ShutdownSweepDone(i) ==
    /\ i \in DOMAIN service.shutdowns /\ service.shutdowns[i].pc = "sweeping"
    /\ ~service.shutdowns[i].cancel
    /\ service.pc # "sleeping" /\ CollectionOver
    /\ \A o \in DOMAIN service.shutdowns \ {i} : Finished(service.shutdowns[o].pc)
    /\ service' = [service EXCEPT !.shutdowns[i] = [@ EXCEPT !.pc = "done"]]
    /\ UNCHANGED <<monVars, colVars, dbVars, price_ticks, coins, pool>>

\* the shutdown() task is cancelled while it awaits the gather of line 79: CancelledError
\* is no Exception (line 81), the finally of line 83 logs, the task ends cancelled
ShutdownSweepCancelled(i) ==
    /\ i \in DOMAIN service.shutdowns /\ service.shutdowns[i].pc = "sweeping"
    /\ service.shutdowns[i].cancel
    /\ service' = [service EXCEPT !.shutdowns[i] = [@ EXCEPT !.pc = "cancelled", !.cancel = FALSE]]
    /\ UNCHANGED <<monVars, colVars, dbVars, price_ticks, coins, pool>>

\* the main task leaves the loop of lines 46-50 and calls shutdown() in the finally of
\* line 55; with self.running false the call returns at once and start() returns
finally_shutdown ==
    /\ ~service.running
    /\ service' = [service EXCEPT !.pc = "returned", !.cancel = FALSE,
                                  !.shutdown_calls = @ + 1]
    /\ UNCHANGED <<monVars, colVars, dbVars, price_ticks, coins, pool>>

\* await asyncio.sleep(1) returns and `while self.running` ends the loop
MainTick ==
    /\ service.pc = "sleeping" /\ ~service.cancel
    /\ finally_shutdown

\* the main task is cancelled in asyncio.sleep(1): except asyncio.CancelledError: break
MainCancelled ==
    /\ service.pc = "sleeping" /\ service.cancel
    /\ finally_shutdown

\* asyncio.run once start() has returned: every task that is not done is cancelled
RunCancelsAll ==
    /\ service.pc = "returned"
    /\ sched.pc # "loop"
    /\ service' = [service EXCEPT
                      !.pc = "closing",
                      !.shutdowns = [j \in DOMAIN service.shutdowns |->
                          IF service.shutdowns[j].pc = "created"
                          THEN [service.shutdowns[j] EXCEPT !.pc = "cancelled"]
                          ELSE IF ~Finished(service.shutdowns[j].pc)
                          THEN [service.shutdowns[j] EXCEPT !.cancel = TRUE]
                          ELSE service.shutdowns[j]]]
    /\ sched' = [sched EXCEPT !.pc = IF sched.pc \in Awaits THEN "cancelling" ELSE sched.pc]
    /\ UNCHANGED <<monVars, dbVars, price_ticks, coins, pool, running, tasks, current_timeframe,
                   initialization_done>>

\* asyncio.run returns once the cancelled tasks are over
RunReturns ==
    /\ service.pc = "closing"
    /\ CollectionOver
    /\ \A j \in DOMAIN service.shutdowns : Finished(service.shutdowns[j].pc)
    /\ service' = [service EXCEPT !.pc = "closed"]
    /\ UNCHANGED <<monVars, colVars, dbVars, price_ticks, coins, pool>>

ServiceNext ==
    \/ ServiceStart
    \/ Signal
    \/ \E ok \in BOOLEAN : TestConnection(ok)
    \/ Synchronise
    \/ Dispatch(ServiceTracked)
    \/ Gather
    \/ Sleep
    \/ \E id \in DOMAIN tasks : TaskEnds(id)
    \/ Cancelled
    \/ \E i \in DOMAIN service.shutdowns : ShutdownRun(i)
    \/ \E i \in DOMAIN service.shutdowns : ShutdownSweep(i)
    \/ \E i \in DOMAIN service.shutdowns : ShutdownStopCancelled(i)
    \/ \E i \in DOMAIN service.shutdowns : ShutdownSweepDone(i)
    \/ \E i \in DOMAIN service.shutdowns : ShutdownSweepCancelled(i)
    \/ MainTick
    \/ MainCancelled
    \/ RunCancelsAll
    \/ RunReturns

SpecService == Init /\ [][ServiceNext]_vars

\* Every step but the arrival of a signal is one the event loop takes once it can: a
\* ready task is run, a finished await is resumed. A signal may never come.
FairSpecService ==
    /\ SpecService
    /\ WF_vars(ServiceStart)
    /\ WF_vars(\E ok \in BOOLEAN : TestConnection(ok))
    /\ WF_vars(Synchronise)
    /\ WF_vars(Dispatch(ServiceTracked))
    /\ WF_vars(Gather)
    /\ WF_vars(Sleep)
    /\ WF_vars(\E id \in DOMAIN tasks : TaskEnds(id))
    /\ WF_vars(Cancelled)
    /\ WF_vars(\E i \in DOMAIN service.shutdowns : ShutdownRun(i))
    /\ WF_vars(\E i \in DOMAIN service.shutdowns : ShutdownSweep(i))
    /\ WF_vars(\E i \in DOMAIN service.shutdowns : ShutdownStopCancelled(i))
    /\ WF_vars(\E i \in DOMAIN service.shutdowns : ShutdownSweepDone(i))
    /\ WF_vars(\E i \in DOMAIN service.shutdowns : ShutdownSweepCancelled(i))
    /\ WF_vars(MainTick)
    /\ WF_vars(MainCancelled)
    /\ WF_vars(RunCancelsAll)
    /\ WF_vars(RunReturns)

\* C35: once the connectivity check at the start of the collection loop has failed, the
\* service reaches its stopped state: its running flag false and shutdown executed.
C35_ServiceStopped == ~service.running /\ service.shutdown_calls > 0
C35_FailedCheckStopsService == (sched.connected = "no") ~> C35_ServiceStopped

\* C36: however often shutdown is asked for (two signals, or a signal and the finally
\* block of start), the collector is stopped at most once and the remaining tasks are
\* swept at most once, by the one call that found the service running; once that call
\* is over the service is not running and the collection task has ended.
C36_Effective == {i \in DOMAIN service.shutdowns : service.shutdowns[i].effective}
C36_AtMostOnce ==
    /\ service.stop_collection_calls <= 1
    /\ service.sweeps <= service.stop_collection_calls
    /\ Cardinality(C36_Effective) = service.stop_collection_calls
C36_ShutdownIsIdempotent ==
    /\ C36_AtMostOnce
    /\ \A i \in C36_Effective :
          Finished(service.shutdowns[i].pc) =>
              /\ ~service.running /\ ~running
              /\ CollectionOver
              /\ service.sweeps = 1
C36_Witness ==
    /\ service.shutdown_calls >= 3
    /\ service.signals = 2
    /\ \E i \in C36_Effective : service.shutdowns[i].pc = "done"
    /\ service.stop_collection_calls = 1 /\ service.sweeps = 1
====
